---- MODULE Spec2Model ----
(***************************************************************************)
(* Model of pinenote-service: the rectangle algebra (types/rect.rs), the   *)
(* occlusion-resolving ZTree (types/ztree.rs), the window/application      *)
(* registry and compute_hints (pixel_manager.rs) and the command           *)
(* dispatcher (ebc/ctl.rs).                                                *)
(***************************************************************************)
EXTENDS Integers, Sequences, FiniteSets, TLC

VARIABLES
    \* ---- ZTree under test (types/ztree.rs)
    nodes,          \* ZTree.nodes: BTreeMap<i32, ZNode>, as a function z_index -> Seq(ZLeaf)
    inserted,       \* every ZSurface handed to ZTree::insert so far, in call order
    rets,           \* the value each of those ZTree::insert calls returned
    \* ---- registry and compositor (pixel_manager.rs)
    pixel_manager,  \* the PixelManager: default_hint, screen_area, applications, windows
    next_uid,       \* number of window uids (fresh UUIDs) handed out so far
    last_call,      \* the latest registry call: its name, arguments and result
    \* ---- dispatcher (ebc/ctl.rs, ebc/command.rs)
    queue,          \* the commands in the mpsc channel, oldest first
    driver_hints,   \* the hints the driver sink holds: the last accepted upload
    last_dispatch,  \* the latest dispatched command and what dispatching it did
    sent,           \* the commands do_send put into the channel, in enqueue order
    history         \* what serve dispatched, in order: each command, what was sent
                    \* on its reply channel and to the driver sink, its Result and
                    \* the registry afterwards
    , last_ipc      \* the latest HintMgr1 method call: its name, arguments and what
                    \* it returned before awaiting a reply
    , senders       \* "open" while a Sender of the channel lives, "closed" once
                    \* every Sender is dropped
    , serve_pc      \* where serve is: "recv" in its loop, "returned" after it
    , producers     \* the tasks that call with_reply: where each is ("idle",
                    \* "send" awaiting room in the channel, "await" awaiting
                    \* the reply, "resumed"), its command, the place of the
                    \* command in sent, and what with_reply returned
    , bridge        \* the window manager bridge: app_meta (pid -> key returned
                    \* by Application::Add and the ids of its windows),
                    \* window_meta (id -> key returned by Window::Add and the
                    \* window as sent), previous_windows (niri bridge), the
                    \* number of passes made and what the latest pass saw
    \* ---- SplitRect under test (types/rect.rs)
    , split_rect    \* a SplitRect: Vec<Rect>, as a sequence of Rects
    , last_mask     \* the latest call on a SplitRect or a Rect: for mask_with the
                    \* SplitRect it consumed, the rectangle it was given and the
                    \* SplitRect it returned; for intersect the two rectangles,
                    \* what it returned and what intersection returns for them
    \* ---- Hint under test (types/rockchip_ebc.rs)
    , last_hint     \* the latest conversion of a Hint: its name, its input and
                    \* what it returned

zvars == <<nodes, inserted, rets, split_rect, last_mask, last_hint>>
pmvars == <<pixel_manager, next_uid, last_call>>
histvars == <<sent, history, last_ipc, producers, bridge>>
lifevars == <<senders, serve_pc>>
ctlvars == <<queue, driver_hints, last_dispatch, sent, history, last_ipc, producers,
            bridge,
            senders, serve_pc>>

vars == <<nodes, inserted, rets, pixel_manager, next_uid, last_call,
          queue, driver_hints, last_dispatch, sent, history, last_ipc, producers,
          bridge,
          senders, serve_pc, split_rect, last_mask, last_hint>>

-----------------------------------------------------------------------------
\* Bounds of the model.

\* Width and height of the coordinate grid rectangles are drawn from.
GridW == 3
GridH == 2
\* Surfaces are inserted at z-indices 0..MaxZ.
MaxZ == 2
\* Number of ZTree::insert calls in one behaviour.
MaxInserts == 3

\* Largest number of members of a SplitRect the SplitRect specification starts
\* from, and number of mask_with calls it makes in a row.
MaxMembers == 2
MaxMasks == 2
\* Width and height of the grid of the residual specification: the smallest
\* grid in which a mask lies strictly inside a member.
ResidualW == 3
ResidualH == 3
\* Number of passes a bridge makes in one behaviour.
MaxPasses == 3
\* Number of tasks that call with_reply at the same time.
MaxProducers == 3
\* Largest number of tokens of a human-readable hint string.
MaxTokens == 3

\* The screen is ScreenW x ScreenH cells (1872 x 1404 on the device).
ScreenW == 3
ScreenH == 2
\* Number of windows created (uids handed out) in one behaviour.
MaxUids == 3

\* i32::MAX and i32::MIN, the fold seeds of SplitRect::bounds.
I32_MAX == 2147483647
I32_MIN == -I32_MAX - 1

-----------------------------------------------------------------------------
\* Option<T>: None is the empty sequence, Some(v) the one-element sequence.
None == <<>>
Some(v) == <<v>>
is_some(o) == o # None
\* Option::expect / unwrap
expect(o) == o[1]

Min(a, b) == IF a <= b THEN a ELSE b
Max(a, b) == IF a >= b THEN a ELSE b

-----------------------------------------------------------------------------
\* types/rect.rs

Rect_new(x1, y1, x2, y2) == [x1 |-> x1, y1 |-> y1, x2 |-> x2, y2 |-> y2]

\* Mutant of intersection: the rectangle is returned as it is.
intersection_self(self, other) == Some(self)

\* Rect::intersection
intersection(self, other) ==
    LET inter == Rect_new(Max(self.x1, other.x1), Max(self.y1, other.y1),
                          Min(self.x2, other.x2), Min(self.y2, other.y2))
    IN  IF (inter.x2 - inter.x1) <= 0 \/ (inter.y2 - inter.y1) <= 0
        THEN None
        ELSE Some(inter)

\* Rect::intersect
intersect(self, rhs) ==
    /\ self.x1 <= rhs.x2
    /\ self.x2 >= rhs.x1
    /\ self.y1 <= rhs.y2
    /\ self.y2 >= rhs.y1

\* Rect::cover
cover(self, other) ==
    /\ self.x1 <= other.x1
    /\ self.y1 <= other.y1
    /\ self.x2 >= other.x2
    /\ self.y2 >= other.y2

\* SplitRect::is_empty
is_empty(self) == Len(self) = 0

RECURSIVE bounds_fold(_, _)
bounds_fold(rs, racc) ==
    IF rs = <<>> THEN racc
    ELSE bounds_fold(Tail(rs),
                     Rect_new(Min(racc.x1, Head(rs).x1), Min(racc.y1, Head(rs).y1),
                              Max(racc.x2, Head(rs).x2), Max(racc.y2, Head(rs).y2)))

\* SplitRect::bounds
bounds(self) ==
    IF is_empty(self) THEN None
    ELSE Some(bounds_fold(self, Rect_new(I32_MAX, I32_MAX, I32_MIN, I32_MIN)))

\* Mutant of mask_rect: the residuals of zero width or height are not dropped.
mask_rect_nofilter(r, other) ==
    LET o == intersection(r, other)
    IN  IF o = None THEN <<r>>
        ELSE LET inter == expect(o)
             IN  << Rect_new(r.x1, r.y1, inter.x1, inter.y2),
                    Rect_new(inter.x1, r.y1, r.x2, inter.y1),
                    Rect_new(inter.x2, inter.y1, r.x2, r.y2),
                    Rect_new(r.x1, inter.y2, inter.x2, r.y2) >>

\* Mutant of mask_rect: the Top residual comes before the Left one.
mask_rect_top_first(r, other) ==
    LET o == intersection(r, other)
    IN  IF o = None THEN <<r>>
        ELSE LET inter == expect(o)
                 keep(q) == (q.x2 - q.x1) > 0 /\ (q.y2 - q.y1) > 0
             IN  SelectSeq(<< Rect_new(inter.x1, r.y1, r.x2, inter.y1),
                              Rect_new(r.x1, r.y1, inter.x1, inter.y2),
                              Rect_new(inter.x2, inter.y1, r.x2, r.y2),
                              Rect_new(r.x1, inter.y2, inter.x2, r.y2) >>, keep)

\* SplitRect::mask_rect
mask_rect(r, other) ==
    LET o == intersection(r, other)
    IN  IF o = None THEN <<r>>
        ELSE LET inter == expect(o)
                 keep(q) == (q.x2 - q.x1) > 0 /\ (q.y2 - q.y1) > 0
             IN  SelectSeq(<< Rect_new(r.x1, r.y1, inter.x1, inter.y2),
                              Rect_new(inter.x1, r.y1, r.x2, inter.y1),
                              Rect_new(inter.x2, inter.y1, r.x2, r.y2),
                              Rect_new(r.x1, inter.y2, inter.x2, r.y2) >>, keep)

\* Mutant of mask_with: only the first member is masked.
mask_with_head(self, other) ==
    IF self = <<>> THEN <<>>
    ELSE mask_rect(Head(self), other) \o Tail(self)

\* SplitRect::mask_with
RECURSIVE mask_with(_, _)
mask_with(self, other) ==
    IF self = <<>> THEN <<>>
    ELSE mask_rect(Head(self), other) \o mask_with(Tail(self), other)

\* impl From<Rect> for SplitRect
SplitRect_from(value) == <<value>>

-----------------------------------------------------------------------------
\* types/ztree.rs

ZSurface_new(z_index, reference, area) ==
    [z_index |-> z_index, reference |-> reference, area |-> area]

ZLeaf_new(reference, area) == [reference |-> reference, area |-> SplitRect_from(area)]

\* ZLeaf::mask: Option<ZLeaf>
ZLeaf_mask(self, other) ==
    LET area == mask_with(self.area, expect(bounds(other.area)))
    IN  IF is_empty(area) THEN None
        ELSE Some([reference |-> self.reference, area |-> area])

\* Mutant of mask_in_place: the masked area is computed and thrown away.
mask_in_place_keep(self, other) == self

\* ZLeaf::mask_in_place: the leaf after the call (the bool it returns is
\* whether the new area is non-empty)
mask_in_place(self, other) ==
    [reference |-> self.reference,
     area |-> mask_with(self.area, expect(bounds(other.area)))]

\* Mutant of mask_all_in_place: retain_mut keeps every leaf.
RECURSIVE mask_all_in_place_retain_all(_, _)
mask_all_in_place_retain_all(leaves, mask) ==
    IF leaves = <<>> THEN <<>>
    ELSE <<mask_in_place(Head(leaves), mask)>>
         \o mask_all_in_place_retain_all(Tail(leaves), mask)

\* ZNode::mask_all_in_place: the leaves retained in the node, in order
RECURSIVE mask_all_in_place(_, _)
mask_all_in_place(leaves, mask) ==
    IF leaves = <<>> THEN <<>>
    ELSE LET l == mask_in_place(Head(leaves), mask)
         IN  (IF ~is_empty(l.area) THEN <<l>> ELSE <<>>)
             \o mask_all_in_place(Tail(leaves), mask)

\* The keys of a BTreeMap in iteration (ascending) order.
RECURSIVE sorted_keys(_)
sorted_keys(S) ==
    IF S = {} THEN <<>>
    ELSE LET m == CHOOSE x \in S : \A y \in S : x <= y
         IN  <<m>> \o sorted_keys(S \ {m})

\* nodes.range((Excluded(z_index), Unbounded)).flat_map(|(_, n)| &n.leaves)
RECURSIVE leaves_of(_, _)
leaves_of(tree, keys) ==
    IF keys = <<>> THEN <<>>
    ELSE tree[Head(keys)] \o leaves_of(tree, Tail(keys))

\* Mutant of upper_leaves: the range starts one layer too high.
upper_leaves_skip_one(tree, z_index) ==
    leaves_of(tree, sorted_keys({k \in DOMAIN tree : k > z_index + 1}))

upper_leaves(tree, z_index) ==
    leaves_of(tree, sorted_keys({k \in DOMAIN tree : k > z_index}))

\* Mutant of try_fold_mask: only the first upper leaf masks the newcomer.
try_fold_mask_first(new_leaf, uppers) ==
    IF uppers = <<>> THEN Some(new_leaf)
    ELSE ZLeaf_mask(new_leaf, Head(uppers))

\* try_fold(ZLeaf::new(..), |new_leaf, upper| new_leaf.mask(upper)): Option<ZLeaf>
RECURSIVE try_fold_mask(_, _)
try_fold_mask(new_leaf, uppers) ==
    IF uppers = <<>> THEN Some(new_leaf)
    ELSE LET m == ZLeaf_mask(new_leaf, Head(uppers))
         IN  IF m = None THEN None ELSE try_fold_mask(expect(m), Tail(uppers))

\* Mutant of split_off_keys: the bucket at z_index stays with the lower part
\* and is masked by the newcomer.
split_off_keys_above(tree, z_index) == {k \in DOMAIN tree : k > z_index}

\* The keys that BTreeMap::split_off(&z_index) moves to the returned map.
split_off_keys(tree, z_index) == {k \in DOMAIN tree : k >= z_index}

\* ZTree::insert: [ok |-> the bool returned, nodes |-> the tree afterwards]
insert(tree, surface) ==
    LET z_index == surface.z_index
        folded  == try_fold_mask(ZLeaf_new(surface.reference, surface.area),
                                 upper_leaves(tree, z_index))
    IN  IF folded = None THEN [ok |-> FALSE, nodes |-> tree]
        ELSE
          LET new_leaf  == expect(folded)
              upperK    == split_off_keys(tree, z_index)
              lowerK    == DOMAIN tree \ upperK
              masked    == [k \in lowerK |-> mask_all_in_place(tree[k], new_leaf)]
              keptK     == {k \in lowerK : masked[k] # <<>>}
              bucket    == IF z_index \in upperK THEN tree[z_index] ELSE <<>>
          IN  [ok |-> TRUE,
               nodes |-> [k \in keptK \cup upperK \cup {z_index} |->
                            IF k = z_index THEN Append(bucket, new_leaf)
                            ELSE IF k \in upperK THEN tree[k]
                            ELSE masked[k]]]

\* impl From<ZTree> for Vec<ZSurface>, one bucket
RECURSIVE flatten_leaves(_, _)
flatten_leaves(z_index, leaves) ==
    IF leaves = <<>> THEN <<>>
    ELSE LET l == Head(leaves)
             b == bounds(l.area)
         IN  (IF is_some(b) THEN <<ZSurface_new(z_index, l.reference, expect(b))>>
              ELSE <<>>)
             \o flatten_leaves(z_index, Tail(leaves))

RECURSIVE flatten_keys(_, _)
flatten_keys(tree, keys) ==
    IF keys = <<>> THEN <<>>
    ELSE flatten_leaves(Head(keys), tree[Head(keys)]) \o flatten_keys(tree, Tail(keys))

\* Mutant of sorted_keys is not possible for a BTreeMap; the mutant of flatten
\* walks the buckets from the highest key down.
RECURSIVE flatten_keys_rev(_, _)
flatten_keys_rev(tree, keys) ==
    IF keys = <<>> THEN <<>>
    ELSE flatten_keys_rev(tree, Tail(keys)) \o flatten_leaves(Head(keys), tree[Head(keys)])

flatten_rev(tree) == flatten_keys_rev(tree, sorted_keys(DOMAIN tree))

\* ZTree::flatten
flatten(tree) == flatten_keys(tree, sorted_keys(DOMAIN tree))

\* ZTree::new
ZTree_new == [k \in {} |-> <<>>]

-----------------------------------------------------------------------------
\* types/rockchip_ebc.rs: Hint

\* enum HintBitDepth
Y1 == 0
Y2 == 1
Y4 == 2
\* enum HintConvertMode
Threshold == 0
Dither == 1

BIT_DEPTH_SHIFT == 4
CONVERT_SHIFT == 6
REDRAW_SHIFT == 7

\* v << n on a u8
Shl8(v, n) == (v * (2 ^ n)) % 256

\* Hint::new; the three fields occupy disjoint bits, so | is +
Hint_new(bit_depth, convert_mode, redraw) ==
    [repr |-> Shl8(bit_depth, BIT_DEPTH_SHIFT)
              + Shl8(convert_mode, CONVERT_SHIFT)
              + Shl8(IF redraw THEN 1 ELSE 0, REDRAW_SHIFT)]

-----------------------------------------------------------------------------
\* pixel_manager.rs

\* Result<T, PixelManagerError>
Ok(v) == [ok |-> TRUE, val |-> v]
Err(e) == [ok |-> FALSE, err |-> e]
UnknownApp(key) == [kind |-> "UnknownApp", key |-> key]
UnknownWindow(key) == [kind |-> "UnknownWindow", key |-> key]
\* the unit value ()
Unit == "()"

\* Application::new
Application_new(app_id, pid) ==
    [app_id |-> app_id, pid |-> pid, default_hint |-> None, windows |-> {}]

\* Application::with_hint
Application_with_hint(app_id, pid, default_hint) ==
    [app_id |-> app_id, pid |-> pid, default_hint |-> default_hint, windows |-> {}]

\* Application::key
Application_key(self) == self.app_id \o ":" \o ToString(self.pid)

\* struct WindowData
WindowData(title, area, hint, visible, z_index) ==
    [title |-> title, area |-> area, hint |-> hint, visible |-> visible,
     z_index |-> z_index]

\* Window::new; uid stands for the fresh Uuid::new_v4() of the call
Window_new(uid, app_key, title, area, hint, visible, z_index) ==
    [uid |-> uid, app_key |-> app_key,
     data |-> WindowData(title, area, hint, visible, z_index)]

\* Mutant of zsurface: hidden windows give a surface too.
zsurface_hidden(self, screen_area) ==
    LET i == intersection(self.data.area, screen_area)
    IN  IF i = None THEN None
        ELSE Some(ZSurface_new(self.data.z_index, self.uid, expect(i)))

\* Mutant of zsurface: the window area is not clipped to the screen.
zsurface_noclip(self, screen_area) ==
    IF self.data.visible
    THEN Some(ZSurface_new(self.data.z_index, self.uid, self.data.area))
    ELSE None

\* Window::zsurface: Option<ZSurface>
zsurface(self, screen_area) ==
    IF self.data.visible
    THEN LET i == intersection(self.data.area, screen_area)
         IN  IF i = None THEN None
             ELSE Some(ZSurface_new(self.data.z_index, self.uid, expect(i)))
    ELSE None

\* PixelManager::new
PixelManager_new(default_hint, screen_area) ==
    [default_hint |-> default_hint, screen_area |-> screen_area,
     applications |-> [k \in {} |-> 0], windows |-> [k \in {} |-> 0]]

\* A HashMap without the key k.
map_remove(m, k) == [x \in DOMAIN m \ {k} |-> m[x]]
\* A HashMap with k bound to v.
map_insert(m, k, v) == [x \in DOMAIN m \cup {k} |-> IF x = k THEN v ELSE m[x]]

\* PixelManager::app
app(self, app_key) ==
    IF app_key \in DOMAIN self.applications
    THEN Ok(self.applications[app_key])
    ELSE Err(UnknownApp(app_key))

\* PixelManager::window
window(self, win_key) ==
    IF win_key \in DOMAIN self.windows
    THEN Ok(self.windows[win_key])
    ELSE Err(UnknownWindow(win_key))

\* Mutant of app_add: the application given replaces a registered one.
app_add_overwrite(self, a) ==
    [self |-> [self EXCEPT !.applications = map_insert(@, Application_key(a), a)],
     res |-> Application_key(a)]

\* PixelManager::app_add: [self |-> the manager afterwards, res |-> the key]
app_add(self, a) ==
    LET key == Application_key(a)
    IN  [self |-> IF key \notin DOMAIN self.applications
                  THEN [self EXCEPT !.applications = map_insert(@, key, a)]
                  ELSE self,
         res |-> key]

\* Mutant of app_remove: every window of the registry goes with the application.
app_remove_all_windows(self, app_key) ==
    IF app_key \notin DOMAIN self.applications THEN self
    ELSE [self EXCEPT !.applications = map_remove(@, app_key),
                      !.windows = <<>>]

\* Mutant of app_remove: the windows of the application are left behind.
app_remove_nocascade(self, app_key) ==
    IF app_key \notin DOMAIN self.applications THEN self
    ELSE [self EXCEPT !.applications = map_remove(@, app_key)]

\* PixelManager::app_remove
app_remove(self, app_key) ==
    IF app_key \notin DOMAIN self.applications THEN self
    ELSE LET a == self.applications[app_key]
         IN  [self EXCEPT !.applications = map_remove(@, app_key),
                          !.windows = [w \in DOMAIN @ \ a.windows |-> @[w]]]

\* PixelManager::app_hint
app_hint(self, app_key) ==
    LET a == app(self, app_key)
    IN  IF a.ok THEN Ok(a.val.default_hint) ELSE a

\* PixelManager::app_set_hint: [self, res]
app_set_hint(self, app_key, hint) ==
    LET a == app(self, app_key)
    IN  IF ~a.ok THEN [self |-> self, res |-> a]
        ELSE [self |-> [self EXCEPT !.applications[app_key].default_hint = Some(hint)],
              res |-> Ok(Unit)]

\* PixelManager::app_unset_hint: [self, res]
app_unset_hint(self, app_key) ==
    LET a == app(self, app_key)
    IN  IF ~a.ok THEN [self |-> self, res |-> a]
        ELSE [self |-> [self EXCEPT !.applications[app_key].default_hint = None],
              res |-> Ok(Unit)]

\* Mutant of window_add: a window of an unregistered application is stored.
window_add_unknown_app(self, w) ==
    [self |-> IF w.uid \notin DOMAIN self.windows
              THEN [self EXCEPT !.windows = map_insert(@, w.uid, w)]
              ELSE self,
     res |-> Ok(w.uid)]

\* Mutant of window_add: the window is stored before the application is
\* looked up.
window_add_store_first(self, w) ==
    IF w.app_key \notin DOMAIN self.applications
    THEN [self |-> [self EXCEPT !.windows = map_insert(@, w.uid, w)],
          res |-> Err(UnknownApp(w.app_key))]
    ELSE [self |-> IF w.uid \notin DOMAIN self.windows
                   THEN [self EXCEPT
                           !.windows = map_insert(@, w.uid, w),
                           !.applications[w.app_key].windows = @ \cup {w.uid}]
                   ELSE self,
          res |-> Ok(w.uid)]

\* PixelManager::window_add: [self, res]
window_add(self, w) ==
    IF w.app_key \notin DOMAIN self.applications
    THEN [self |-> self, res |-> Err(UnknownApp(w.app_key))]
    ELSE [self |-> IF w.uid \notin DOMAIN self.windows
                   THEN [self EXCEPT
                           !.windows = map_insert(@, w.uid, w),
                           !.applications[w.app_key].windows = @ \cup {w.uid}]
                   ELSE self,
          res |-> Ok(w.uid)]

\* Mutant of window_remove: the application keeps the uid in its window set.
window_remove_keep_link(self, win_uid) ==
    IF win_uid \notin DOMAIN self.windows THEN self
    ELSE [self EXCEPT !.windows = map_remove(@, win_uid)]

\* PixelManager::window_remove
window_remove(self, win_uid) ==
    IF win_uid \notin DOMAIN self.windows THEN self
    ELSE LET app_key == self.windows[win_uid].app_key
             removed == [self EXCEPT !.windows = map_remove(@, win_uid)]
         IN  IF app_key \in DOMAIN self.applications
             THEN [removed EXCEPT !.applications[app_key].windows = @ \ {win_uid}]
             ELSE removed

\* Mutant of window_update: the window keeps its visible flag.
window_update_keep_visible(self, win_key, data) ==
    LET w == window(self, win_key)
    IN  IF ~w.ok THEN [self |-> self, res |-> w]
        ELSE [self |-> [self EXCEPT !.windows[win_key].data =
                            [data EXCEPT !.visible = w.val.data.visible]],
              res |-> Ok(Unit)]

\* PixelManager::window_update (Window::update): [self, res]
window_update(self, win_key, data) ==
    LET w == window(self, win_key)
    IN  IF ~w.ok THEN [self |-> self, res |-> w]
        ELSE [self |-> [self EXCEPT !.windows[win_key].data = data],
              res |-> Ok(Unit)]

\* PixelManager::window_set_hint: [self, res]
window_set_hint(self, win_key, hint) ==
    LET w == window(self, win_key)
    IN  IF ~w.ok THEN [self |-> self, res |-> w]
        ELSE [self |-> [self EXCEPT !.windows[win_key].data.hint = Some(hint)],
              res |-> Ok(Unit)]

\* PixelManager::window_unset_hint: [self, res]
window_unset_hint(self, win_key) ==
    LET w == window(self, win_key)
    IN  IF ~w.ok THEN [self |-> self, res |-> w]
        ELSE [self |-> [self EXCEPT !.windows[win_key].data.hint = None],
              res |-> Ok(Unit)]

\* Mutant of window_hint_fallback: the application's default hint is skipped.
window_hint_fallback_noapp(self, win_key) ==
    LET w == window(self, win_key)
    IN  IF ~w.ok THEN w
        ELSE Ok(IF is_some(w.val.data.hint) THEN expect(w.val.data.hint)
                ELSE self.default_hint)

\* PixelManager::window_hint_fallback: Result<Hint, PixelManagerError>
window_hint_fallback(self, win_key) ==
    LET w == window(self, win_key)
    IN  IF ~w.ok THEN w
        ELSE IF is_some(w.val.data.hint) THEN Ok(expect(w.val.data.hint))
        ELSE LET a == app(self, w.val.app_key)
             IN  IF ~a.ok THEN a
                 ELSE Ok(IF is_some(a.val.default_hint)
                         THEN expect(a.val.default_hint)
                         ELSE self.default_hint)

\* The orders in which HashMap::values() can yield the windows: every
\* arrangement of the keys.
IterOrders(m) ==
    {o \in [1..Cardinality(DOMAIN m) -> DOMAIN m] :
        \A i, j \in DOMAIN o : i # j => o[i] # o[j]}

\* Mutant of fold_insert: only the first window yielded reaches the tree.
fold_insert_first(self, order, tree) ==
    IF order = <<>> THEN tree
    ELSE LET s == zsurface(self.windows[Head(order)], self.screen_area)
         IN  IF s = None THEN tree ELSE insert(tree, expect(s)).nodes

\* windows.values().filter_map(|w| w.zsurface(&screen_area)).fold(ZTree::new(), insert)
RECURSIVE fold_insert(_, _, _)
fold_insert(self, order, tree) ==
    IF order = <<>> THEN tree
    ELSE LET s == zsurface(self.windows[Head(order)], self.screen_area)
         IN  fold_insert(self, Tail(order),
                         IF s = None THEN tree ELSE insert(tree, expect(s)).nodes)

\* The flattened surfaces compute_hints attaches hints to.
compute_surfaces(self, order) == flatten(fold_insert(self, order, ZTree_new))

\* Mutant of collect_hints: every entry gets the global default hint.
collect_hints_global(self, surfaces) ==
    Ok([i \in DOMAIN surfaces |-> [rect |-> surfaces[i].area, hint |-> self.default_hint]])

\* .map(|ZSurface{area, reference, ..}| window_hint_fallback(&reference)
\*        .map(|hint| RectHint{rect, hint})).collect::<Result<_, _>>()
RECURSIVE collect_hints(_, _)
collect_hints(self, surfaces) ==
    IF surfaces = <<>> THEN Ok(<<>>)
    ELSE LET h == window_hint_fallback(self, Head(surfaces).reference)
         IN  IF ~h.ok THEN h
             ELSE LET rest == collect_hints(self, Tail(surfaces))
                  IN  IF ~rest.ok THEN rest
                      ELSE Ok(<<[rect |-> Head(surfaces).area, hint |-> h.val]>>
                              \o rest.val)

\* ComputedHints::with_hint
ComputedHints_with_hint(hint) == [default_hint |-> Some(hint), rect_hints |-> <<>>]

\* ret.rect_hints = (..collect..)?; Ok(ret)
set_rect_hints(ret, hints) ==
    IF ~hints.ok THEN hints ELSE Ok([ret EXCEPT !.rect_hints = hints.val])

\* PixelManager::compute_hints, with the windows iterated in the given order:
\* Result<ComputedHints, PixelManagerError>
compute_hints(self, order) ==
    set_rect_hints(ComputedHints_with_hint(self.default_hint),
                   collect_hints(self, compute_surfaces(self, order)))

-----------------------------------------------------------------------------
\* Inputs of the ZTree specification: the non-empty rectangles of the grid.

GridRects ==
    {Rect_new(x1, y1, x2, y2) : x1 \in 0..GridW, y1 \in 0..GridH,
                                 x2 \in 0..GridW, y2 \in 0..GridH}
NonEmptyRects == {r \in GridRects : r.x1 < r.x2 /\ r.y1 < r.y2}

ZIndices == 0..MaxZ

\* drivers/drm/rockchip_ebc.rs: SCREEN_RECT, scaled to the grid
SCREEN_RECT == Rect_new(0, 0, ScreenW, ScreenH)

\* Hints the environment supplies: the driver's default hint read by Ctl::new,
\* and three others that differ from it and from each other.
DefaultHintIn == Hint_new(Y4, Dither, TRUE)
AppHintIn == Hint_new(Y2, Dither, FALSE)
WinHintIn1 == Hint_new(Y1, Threshold, FALSE)
WinHintIn2 == Hint_new(Y4, Threshold, TRUE)

NoCall == [op |-> "none"]

\* QuillNiriBridge::new / SwayBridge::new: nothing registered, no pass made
Bridge_new ==
    [app_meta |-> <<>>, window_meta |-> <<>>, previous_windows |-> <<>>,
     pc |-> "idle", removing |-> <<>>, pending |-> <<>>, app_key |-> 0, ticket |-> 0,
     snapshot |-> <<>>, pids |-> {}, passes |-> 0, last |-> NoCall]

\* The tasks holding a CommandSender, and one that has not called with_reply.
Producers == 1..MaxProducers
IdleProducer == [pc |-> "idle", cmd |-> None, ticket |-> 0, got |-> None]

\* Ctl::new: PixelManager::new(default_hint, screen_area)
PMInit ==
    /\ pixel_manager = PixelManager_new(DefaultHintIn, SCREEN_RECT)
    /\ next_uid = 0
    /\ last_call = NoCall

\* No SplitRect is under test outside the SplitRect specification.
MaskIdle ==
    /\ split_rect = <<>>
    /\ last_mask = NoCall

\* No Hint conversion was made.
HintIdle == last_hint = NoCall

ZTreeInit ==
    /\ nodes = ZTree_new
    /\ inserted = <<>>
    /\ rets = <<>>

ZInit == ZTreeInit /\ MaskIdle /\ HintIdle

\* main(): mpsc::channel(..), and a driver whose hints were not uploaded yet
CtlInit ==
    /\ queue = <<>>
    /\ driver_hints = None
    /\ last_dispatch = NoCall
    /\ sent = <<>>
    /\ history = <<>>
    /\ last_ipc = NoCall
    /\ producers = [p \in Producers |-> IdleProducer]
    /\ bridge = Bridge_new
    /\ senders = "open"
    /\ serve_pc = "recv"

Init == ZInit /\ PMInit /\ CtlInit

\* One call of ZTree::insert; the reference is the call's number.
ZInsert ==
    /\ Len(inserted) < MaxInserts
    /\ \E z \in ZIndices, r \in NonEmptyRects :
         LET s   == ZSurface_new(z, Len(inserted) + 1, r)
             res == insert(nodes, s)
         IN  /\ nodes' = res.nodes
             /\ rets' = Append(rets, res.ok)
             /\ inserted' = Append(inserted, s)
    /\ UNCHANGED <<split_rect, last_mask, last_hint, pmvars, ctlvars>>

ZNext == ZInsert

SpecZTree == Init /\ [][ZNext]_vars

-----------------------------------------------------------------------------
\* Specification of SplitRect: a SplitRect of non-empty, pairwise
\* non-overlapping members of the grid, as SplitRect::from and mask_rect build
\* them, is masked with any rectangles of the grid, one after the other.

\* The SplitRects of n members.
RECURSIVE SplitRectsOf(_)
SplitRectsOf(n) ==
    IF n = 0 THEN {<<>>}
    ELSE {Append(s, r) : s \in SplitRectsOf(n - 1), r \in NonEmptyRects}

SplitRectsIn ==
    {s \in UNION {SplitRectsOf(n) : n \in 1..MaxMembers} :
        \A i, j \in DOMAIN s : i < j => intersection(s[i], s[j]) = None}

MaskInit ==
    /\ ZTreeInit
    /\ PMInit
    /\ CtlInit
    /\ split_rect \in SplitRectsIn
    /\ last_mask = NoCall
    /\ HintIdle

masks_done == IF last_mask = NoCall THEN 0 ELSE last_mask.n

\* let res = split_rect.mask_with(&other)
Mask ==
    /\ masks_done < MaxMasks
    /\ \E other \in GridRects :
         LET res == mask_with(split_rect, other)
         IN  /\ last_mask' = [op |-> "mask_with", self |-> split_rect, other |-> other,
                              res |-> res, n |-> masks_done + 1]
             /\ split_rect' = res
    /\ UNCHANGED <<nodes, inserted, rets, last_hint, pmvars, ctlvars>>

MaskNext == Mask

\* The residual specification: a SplitRect of one or two non-empty,
\* non-overlapping members of the ResidualW x ResidualH grid is masked once
\* with any rectangle of that grid.
ResidualRects ==
    {Rect_new(x1, y1, x2, y2) : x1 \in 0..ResidualW, y1 \in 0..ResidualH,
                                 x2 \in 0..ResidualW, y2 \in 0..ResidualH}

ResidualMembers == {r \in ResidualRects : r.x1 < r.x2 /\ r.y1 < r.y2}

ResidualSplitRects ==
    {<<r>> : r \in ResidualMembers}
        \cup {s \in {<<r, q>> : r \in ResidualMembers, q \in ResidualMembers} :
                  intersection(s[1], s[2]) = None}

ResidualInit ==
    /\ ZTreeInit
    /\ PMInit
    /\ CtlInit
    /\ split_rect \in ResidualSplitRects
    /\ last_mask = NoCall
    /\ HintIdle

\* let res = split_rect.mask_with(&other)
ResidualMask ==
    /\ last_mask = NoCall
    /\ \E other \in ResidualRects :
         LET res == mask_with(split_rect, other)
         IN  /\ last_mask' = [op |-> "mask_with", self |-> split_rect, other |-> other,
                              res |-> res, n |-> 1]
             /\ split_rect' = res
    /\ UNCHANGED <<nodes, inserted, rets, last_hint, pmvars, ctlvars>>

ResidualNext == ResidualMask

SpecResidual == ResidualInit /\ [][ResidualNext]_vars

\* The Rect specification: intersect and intersection are called on any two
\* rectangles of the grid.

\* let res = self.intersect(&rhs); let inter = self.intersection(&rhs)
RectIntersect ==
    /\ last_mask = NoCall
    /\ \E self \in GridRects, rhs \in GridRects :
         last_mask' = [op |-> "intersect", self |-> self, other |-> rhs,
                       res |-> intersect(self, rhs),
                       inter |-> intersection(self, rhs)]
    /\ UNCHANGED <<split_rect, nodes, inserted, rets, last_hint, pmvars, ctlvars>>

RectNext == RectIntersect

SpecRect == Init /\ [][RectNext]_vars

SpecMask == MaskInit /\ [][MaskNext]_vars

-----------------------------------------------------------------------------
\* Calls of the registry operations of PixelManager. Each records itself in
\* last_call: op, args, and res (the returned value, Unit when none).

PMFrame == UNCHANGED <<zvars, ctlvars>>

Call_app_add(a) ==
    LET r == app_add(pixel_manager, a)
    IN  /\ pixel_manager' = r.self
        /\ last_call' = [op |-> "app_add", args |-> <<a>>, res |-> r.res]
        /\ UNCHANGED next_uid
        /\ PMFrame

Call_app_remove(app_key) ==
    /\ pixel_manager' = app_remove(pixel_manager, app_key)
    /\ last_call' = [op |-> "app_remove", args |-> <<app_key>>, res |-> Unit]
    /\ UNCHANGED next_uid
    /\ PMFrame

Call_app_set_hint(app_key, hint) ==
    LET r == app_set_hint(pixel_manager, app_key, hint)
    IN  /\ pixel_manager' = r.self
        /\ last_call' = [op |-> "app_set_hint", args |-> <<app_key, hint>>, res |-> r.res]
        /\ UNCHANGED next_uid
        /\ PMFrame

Call_app_unset_hint(app_key) ==
    LET r == app_unset_hint(pixel_manager, app_key)
    IN  /\ pixel_manager' = r.self
        /\ last_call' = [op |-> "app_unset_hint", args |-> <<app_key>>, res |-> r.res]
        /\ UNCHANGED next_uid
        /\ PMFrame

\* Window::new followed by window_add; the new window takes the next uid.
Call_window_add(app_key, data) ==
    LET w == Window_new(next_uid + 1, app_key, data.title, data.area, data.hint,
                        data.visible, data.z_index)
        r == window_add(pixel_manager, w)
    IN  /\ pixel_manager' = r.self
        /\ next_uid' = next_uid + 1
        /\ last_call' = [op |-> "window_add", args |-> <<w>>, res |-> r.res]
        /\ PMFrame

Call_window_remove(win_uid) ==
    /\ pixel_manager' = window_remove(pixel_manager, win_uid)
    /\ last_call' = [op |-> "window_remove", args |-> <<win_uid>>, res |-> Unit]
    /\ UNCHANGED next_uid
    /\ PMFrame

Call_window_update(win_key, data) ==
    LET r == window_update(pixel_manager, win_key, data)
    IN  /\ pixel_manager' = r.self
        /\ last_call' = [op |-> "window_update", args |-> <<win_key, data>>, res |-> r.res]
        /\ UNCHANGED next_uid
        /\ PMFrame

Call_window_set_hint(win_key, hint) ==
    LET r == window_set_hint(pixel_manager, win_key, hint)
    IN  /\ pixel_manager' = r.self
        /\ last_call' = [op |-> "window_set_hint", args |-> <<win_key, hint>>, res |-> r.res]
        /\ UNCHANGED next_uid
        /\ PMFrame

Call_window_unset_hint(win_key) ==
    LET r == window_unset_hint(pixel_manager, win_key)
    IN  /\ pixel_manager' = r.self
        /\ last_call' = [op |-> "window_unset_hint", args |-> <<win_key>>, res |-> r.res]
        /\ UNCHANGED next_uid
        /\ PMFrame

-----------------------------------------------------------------------------
\* The registry specification: every registry operation, on known and unknown
\* keys, over a small set of applications and window contents.

\* Windows created in one behaviour of the registry specification.
MaxPMWindows == 2
\* Process ids of the applications.
MaxPid == 2

PMApps == {Application_with_hint("", p, h) : p \in 1..MaxPid, h \in {None, Some(AppHintIn)}}
\* the keys of those applications, and one that is never registered
PMAppKeys == {Application_key(a) : a \in PMApps} \cup {":0"}
\* every uid that can be handed out, and one that never is
PMWinKeys == 1..(MaxPMWindows + 1)
PMHints == {AppHintIn, WinHintIn1}
PMData ==
    { WindowData("a", Rect_new(0, 0, ScreenW, ScreenH), None, TRUE, 0),
      WindowData("b", Rect_new(1, 0, 2, 1), Some(WinHintIn1), FALSE, 1),
      WindowData("a", Rect_new(1, 0, ScreenW + 1, 1), Some(WinHintIn2), TRUE, 1) }

PM_app_add == \E a \in PMApps : Call_app_add(a)
PM_app_remove == \E k \in PMAppKeys : Call_app_remove(k)
PM_app_set_hint == \E k \in PMAppKeys, h \in PMHints : Call_app_set_hint(k, h)
PM_app_unset_hint == \E k \in PMAppKeys : Call_app_unset_hint(k)
PM_window_add ==
    /\ next_uid < MaxPMWindows
    /\ \E k \in PMAppKeys, d \in PMData : Call_window_add(k, d)
PM_window_remove == \E w \in PMWinKeys : Call_window_remove(w)
PM_window_update == \E w \in PMWinKeys, d \in PMData : Call_window_update(w, d)
PM_window_set_hint == \E w \in PMWinKeys, h \in PMHints : Call_window_set_hint(w, h)
PM_window_unset_hint == \E w \in PMWinKeys : Call_window_unset_hint(w)

PMNext ==
    \/ PM_app_add
    \/ PM_app_remove
    \/ PM_app_set_hint
    \/ PM_app_unset_hint
    \/ PM_window_add
    \/ PM_window_remove
    \/ PM_window_update
    \/ PM_window_set_hint
    \/ PM_window_unset_hint

SpecPM == Init /\ [][PMNext]_vars

-----------------------------------------------------------------------------
\* The compositor specification: one application and up to MaxUids windows
\* placed over, across and off the screen at every z-index.

HApp == Application_new("", 1)
HAppKey == Application_key(HApp)

\* Window areas: the whole screen, a cell inside it, a row and a column that
\* overflow the screen, the left columns, and one area off the screen.
HAreas ==
    { Rect_new(0, 0, ScreenW, ScreenH),
      Rect_new(1, 0, 2, 1),
      Rect_new(-1, ScreenH - 1, ScreenW + 1, ScreenH + 1),
      Rect_new(ScreenW - 1, -1, ScreenW + 1, ScreenH),
      Rect_new(0, 0, 2, ScreenH),
      Rect_new(ScreenW, 0, ScreenW + 2, ScreenH) }

\* The hint of the n-th window: none, so that it falls back, or its own.
HWinHint(uid) ==
    IF uid = 1 THEN None
    ELSE IF uid = 2 THEN Some(WinHintIn1) ELSE Some(WinHintIn2)

\* Visible windows of every area and z-index, and one hidden window.
HData(uid) ==
    {WindowData("w", a, HWinHint(uid), TRUE, z) : a \in HAreas, z \in ZIndices}
    \cup {WindowData("w", Rect_new(0, 0, ScreenW, ScreenH), HWinHint(uid), FALSE, MaxZ)}

H_app_add == Call_app_add(HApp)
H_app_set_hint == Call_app_set_hint(HAppKey, AppHintIn)
H_window_add ==
    /\ next_uid < MaxUids
    /\ \E d \in HData(next_uid + 1) : Call_window_add(HAppKey, d)

HNext ==
    \/ H_app_add
    \/ H_app_set_hint
    \/ H_window_add

SpecHints == Init /\ [][HNext]_vars

-----------------------------------------------------------------------------
\* ebc/command.rs and ebc/ctl.rs: the commands and the dispatcher.
\* A command is a record: enum and variant name it, the other fields are its
\* payload. A reply field is the command's oneshot channel: "open" while the
\* requester holds the receiver, "closed" once the requester dropped it.
\* The fullscreen field ctl.rs passes along is not part of pixel_manager.rs's
\* WindowData and takes no part in the hints; it is left out.

\* oneshot::Sender::send: hands the value back when the receiver is gone
reply_send(reply, v) == IF reply = "open" THEN Ok(Unit) ELSE Err(v)

\* Mutant of unwrap_or: the value carried is ignored.
unwrap_or_keep(o, default) == default

\* Option::unwrap_or
unwrap_or(o, default) == IF o = None THEN default ELSE expect(o)

\* windows.values() yields the windows in the order the uids have in perm
RECURSIVE values_order(_, _)
values_order(windows, perm) ==
    IF perm = <<>> THEN <<>>
    ELSE (IF Head(perm) \in DOMAIN windows THEN <<Head(perm)>> ELSE <<>>)
         \o values_order(windows, Tail(perm))

\* What dispatching one command did: the registry afterwards, the value sent
\* on the reply channel, the hints handed to the driver sink, and the Result.
Outcome(pm, reply, upload, res) ==
    [pm |-> pm, reply |-> reply, upload |-> upload, res |-> res]

\* self.driver.upload_rect_hints(hints) on the Result of compute_hints, which ?
\* has unwrapped; sink_ok tells whether the driver accepts the upload
upload_rect_hints(self, hints, sink_ok) ==
    IF ~hints.ok
    THEN Outcome(self, None, None, Err("Failed to compute new hints"))
    ELSE Outcome(self, None, Some(hints.val),
                 IF sink_ok THEN Ok(Unit) ELSE Err("Failed to upload hints"))

\* Ctl::recompute_hints
recompute_hints(self, perm, sink_ok) ==
    upload_rect_hints(self, compute_hints(self, values_order(self.windows, perm)),
                      sink_ok)

\* Ctl::dispatch_app
dispatch_app(self, app_cmd, perm, sink_ok) ==
    IF app_cmd.variant = "Add"
    THEN LET r == app_add(self, Application_new("", app_cmd.pid))
         IN  IF reply_send(app_cmd.reply, r.res).ok
             THEN Outcome(r.self, Some(r.res), None, Ok(Unit))
             ELSE Outcome(r.self, None, None, Err("Failed to send response"))
    ELSE recompute_hints(app_remove(self, app_cmd.app_key), perm, sink_ok)

\* Mutant of dispatch_props: the DefaultHint query recomputes the hints too.
dispatch_props_recompute(self, prop_cmd, perm, sink_ok) ==
    IF prop_cmd.variant = "DefaultHint"
    THEN IF reply_send(prop_cmd.reply, self.default_hint).ok
         THEN [recompute_hints(self, perm, sink_ok) EXCEPT
                  !.reply = Some(self.default_hint)]
         ELSE Outcome(self, None, None, Err("Failed to send back default hint"))
    ELSE recompute_hints([self EXCEPT !.default_hint = prop_cmd.hint], perm, sink_ok)

\* Mutant of dispatch_props: SetDefaultHint recomputes without storing the hint.
dispatch_props_keep(self, prop_cmd, perm, sink_ok) ==
    IF prop_cmd.variant = "DefaultHint"
    THEN IF reply_send(prop_cmd.reply, self.default_hint).ok
         THEN Outcome(self, Some(self.default_hint), None, Ok(Unit))
         ELSE Outcome(self, None, None, Err("Failed to send back default hint"))
    ELSE recompute_hints(self, perm, sink_ok)

\* Ctl::dispatch_props
dispatch_props(self, prop_cmd, perm, sink_ok) ==
    IF prop_cmd.variant = "DefaultHint"
    THEN IF reply_send(prop_cmd.reply, self.default_hint).ok
         THEN Outcome(self, Some(self.default_hint), None, Ok(Unit))
         ELSE Outcome(self, None, None, Err("Failed to send back default hint"))
    ELSE recompute_hints([self EXCEPT !.default_hint = prop_cmd.hint], perm, sink_ok)

\* Ctl::dispatch_window, the Window::Add arm; uid is the uid Window::new draws
dispatch_window_add(self, uid, win_cmd, perm, sink_ok) ==
    LET r == window_add(self, Window_new(uid, win_cmd.app_key, win_cmd.title,
                  win_cmd.area, win_cmd.hint, win_cmd.visible, win_cmd.z_index))
    IN  IF ~r.res.ok
        THEN Outcome(self, None, None, Err("PixelManager::window_add failed"))
        ELSE IF ~reply_send(win_cmd.reply, r.res.val).ok
        THEN Outcome(r.self, None, None, Err("Failed to send response"))
        ELSE [recompute_hints(r.self, perm, sink_ok) EXCEPT !.reply = Some(r.res.val)]

\* Ctl::dispatch_window
dispatch_window(self, uid, win_cmd, perm, sink_ok) ==
    IF win_cmd.variant = "Add"
    THEN dispatch_window_add(self, uid, win_cmd, perm, sink_ok)
    ELSE IF win_cmd.variant = "Update"
    THEN LET win == window(self, win_cmd.win_key)
         IN  IF ~win.ok
             THEN Outcome(self, None, None, Err("Failed to get window {win_key}"))
             ELSE LET update == WindowData(
                          unwrap_or(win_cmd.update.title, win.val.data.title),
                          unwrap_or(win_cmd.update.area, win.val.data.area),
                          unwrap_or(win_cmd.update.hint, win.val.data.hint),
                          unwrap_or(win_cmd.update.visible, win.val.data.visible),
                          unwrap_or(win_cmd.update.z_index, win.val.data.z_index))
                      r == window_update(self, win_cmd.win_key, update)
                  IN  IF ~r.res.ok
                      THEN Outcome(self, None, None, Err("Failed to update window {win_key}"))
                      ELSE recompute_hints(r.self, perm, sink_ok)
    ELSE recompute_hints(window_remove(self, win_cmd.win_key), perm, sink_ok)

\* Ctl::dispatch
dispatch(self, uid, cmd, perm, sink_ok) ==
    IF cmd.enum = "Application" THEN dispatch_app(self, cmd, perm, sink_ok)
    ELSE IF cmd.enum = "Property" THEN dispatch_props(self, cmd, perm, sink_ok)
    ELSE dispatch_window(self, uid, cmd, perm, sink_ok)

\* The capacity of the command channel (100 in main).
ChannelCap == 2

\* Mutant of do_send: the command enters the channel whether there is room
\* or not.
do_send_unbounded(cmd) ==
    /\ senders = "open"
    /\ queue' = Append(queue, cmd)
    /\ UNCHANGED <<driver_hints, last_dispatch, pmvars, zvars, lifevars>>

\* Mutant of do_send: the command goes in front of the waiting ones.
do_send_front(cmd) ==
    /\ senders = "open"
    /\ Len(queue) < ChannelCap
    /\ queue' = <<cmd>> \o queue
    /\ UNCHANGED <<driver_hints, last_dispatch, pmvars, zvars, lifevars>>

\* CommandSender::do_send: the command enters the channel when there is room
do_send(cmd) ==
    /\ senders = "open"
    /\ Len(queue) < ChannelCap
    /\ queue' = Append(queue, cmd)
    /\ UNCHANGED <<driver_hints, last_dispatch, pmvars, zvars, lifevars>>

\* Mutant of dispatched: a dispatch that returned an Err leaves the registry
\* as it was before the command.
dispatched_rollback(cmd, d) ==
    /\ pixel_manager' = IF d.res.ok THEN d.pm ELSE pixel_manager
    /\ next_uid' = IF cmd.enum = "Window" /\ cmd.variant = "Add"
                   THEN next_uid + 1 ELSE next_uid
    /\ driver_hints' = IF d.upload # None /\ d.res.ok THEN d.upload
                       ELSE driver_hints
    /\ last_dispatch' = [op |-> "dispatch", cmd |-> cmd,
                         mutated |-> d.pm # pixel_manager,
                         reply |-> d.reply, upload |-> d.upload, res |-> d.res]

\* The effects of one dispatched command: the registry and the uid counter
\* move on, the driver keeps the uploaded hints when the upload succeeded.
dispatched(cmd, d) ==
    /\ pixel_manager' = d.pm
    /\ next_uid' = IF cmd.enum = "Window" /\ cmd.variant = "Add"
                   THEN next_uid + 1 ELSE next_uid
    /\ driver_hints' = IF d.upload # None /\ d.res.ok THEN d.upload
                       ELSE driver_hints
    /\ last_dispatch' = [op |-> "dispatch", cmd |-> cmd,
                         mutated |-> d.pm # pixel_manager,
                         reply |-> d.reply, upload |-> d.upload, res |-> d.res]

\* Mutant of serve: after a dispatch that returned an Err the commands are
\* still taken out of the channel, and dropped.
serve_skip_after_err(perm, sink_ok) ==
    /\ serve_pc = "recv"
    /\ queue # <<>>
    /\ queue' = Tail(queue)
    /\ IF last_dispatch.op = "dispatch" /\ ~last_dispatch.res.ok
       THEN UNCHANGED <<pixel_manager, next_uid, driver_hints, last_dispatch>>
       ELSE dispatched(Head(queue),
                       dispatch(pixel_manager, next_uid + 1, Head(queue), perm, sink_ok))
    /\ UNCHANGED <<last_call, zvars, lifevars>>

\* Mutant of serve_return: serve returns as soon as every Sender is dropped.
serve_return_at_close ==
    /\ serve_pc = "recv"
    /\ senders = "closed"
    /\ serve_pc' = "returned"
    /\ UNCHANGED <<queue, driver_hints, last_dispatch, senders, pmvars, zvars>>

\* Ctl::serve, the end of the loop: rx.recv() gives None once every Sender is
\* dropped and the channel is empty, and serve returns.
serve_return ==
    /\ serve_pc = "recv"
    /\ senders = "closed"
    /\ queue = <<>>
    /\ serve_pc' = "returned"
    /\ UNCHANGED <<queue, driver_hints, last_dispatch, senders, pmvars, zvars>>

\* The last Sender of the channel is dropped.
drop_senders ==
    /\ senders = "open"
    /\ senders' = "closed"
    /\ UNCHANGED <<queue, driver_hints, last_dispatch, serve_pc, pmvars, zvars>>

\* Ctl::serve, one iteration: rx.recv() takes the oldest command and dispatch
\* handles it; an Err is logged and the loop goes on.
serve(perm, sink_ok) ==
    /\ serve_pc = "recv"
    /\ queue # <<>>
    /\ queue' = Tail(queue)
    /\ dispatched(Head(queue),
                  dispatch(pixel_manager, next_uid + 1, Head(queue), perm, sink_ok))
    /\ UNCHANGED <<last_call, zvars, lifevars>>

-----------------------------------------------------------------------------
\* The dispatcher specification: producers enqueue commands with open and
\* closed reply channels, the dispatcher serves them, the sink accepts or
\* rejects each upload.

\* Windows created in one behaviour of the dispatcher specification.
MaxCtlWindows == 2
\* Commands waiting in the channel at one time in the dispatcher specification.
MaxQueued == 1

Replies == {"open", "closed"}
CtlAppKey == Application_key(Application_new("", 1))

NoUpdate == [title |-> None, area |-> None, hint |-> None, visible |-> None,
             z_index |-> None]

CtlWindowAdds ==
    {[enum |-> "Window", variant |-> "Add", app_key |-> CtlAppKey, title |-> "w",
      area |-> Rect_new(0, 0, ScreenW, ScreenH), hint |-> None, visible |-> TRUE,
      z_index |-> 0, reply |-> r] : r \in Replies}
    \cup
    {[enum |-> "Window", variant |-> "Add", app_key |-> k, title |-> "w",
      area |-> Rect_new(1, 0, 2, 1), hint |-> Some(WinHintIn1), visible |-> TRUE,
      z_index |-> 1, reply |-> "open"] : k \in {CtlAppKey, ":0"}}

CtlWindowUpdates ==
    {[enum |-> "Window", variant |-> "Update", win_key |-> w, update |-> u] :
        w \in 1..MaxCtlWindows,
        u \in {[NoUpdate EXCEPT !.visible = Some(FALSE), !.hint = Some(None)]}}

CtlCommands ==
    {[enum |-> "Application", variant |-> "Add", pid |-> 1, reply |-> r] : r \in Replies}
    \cup {[enum |-> "Application", variant |-> "Remove", app_key |-> CtlAppKey]}
    \cup {[enum |-> "Property", variant |-> "DefaultHint", reply |-> r] : r \in Replies}
    \cup {[enum |-> "Property", variant |-> "SetDefaultHint", hint |-> h] :
              h \in {AppHintIn, WinHintIn2}}
    \cup CtlWindowAdds
    \cup CtlWindowUpdates
    \cup {[enum |-> "Window", variant |-> "Remove", win_key |-> w] : w \in 1..MaxCtlWindows}

\* the arrangements of the uids, from which values() takes its order
UidPerms ==
    {o \in [1..MaxCtlWindows -> 1..MaxCtlWindows] :
        \A i, j \in DOMAIN o : i # j => o[i] # o[j]}

Ctl_send ==
    \E cmd \in CtlCommands :
        /\ Len(queue) < MaxQueued
        /\ (cmd.enum = "Window" /\ cmd.variant = "Add") =>
              next_uid + Cardinality({i \in DOMAIN queue :
                  queue[i].enum = "Window" /\ queue[i].variant = "Add"}) < MaxCtlWindows
        /\ do_send(cmd)
        /\ UNCHANGED histvars

Ctl_serve ==
    \E perm \in UidPerms, sink_ok \in BOOLEAN :
        serve(perm, sink_ok) /\ UNCHANGED histvars

CtlNext ==
    \/ Ctl_send
    \/ Ctl_serve

SpecCtl == Init /\ [][CtlNext]_vars

-----------------------------------------------------------------------------
\* The update specification: one requester registers an application and its
\* windows and sends partial updates of the first window.

\* The WindowUpdate payloads: nothing carried, each field carried alone, a
\* carried hint field that holds no hint, and every field carried.
UpdateInputs ==
    { NoUpdate,
      [NoUpdate EXCEPT !.title = Some("t")],
      [NoUpdate EXCEPT !.area = Some(Rect_new(0, 1, 2, ScreenH))],
      [NoUpdate EXCEPT !.hint = Some(None)],
      [NoUpdate EXCEPT !.hint = Some(Some(WinHintIn2))],
      [NoUpdate EXCEPT !.visible = Some(FALSE)],
      [NoUpdate EXCEPT !.z_index = Some(2)],
      [title |-> Some("w"), area |-> Some(Rect_new(1, 0, 2, 1)),
       hint |-> Some(Some(WinHintIn1)), visible |-> Some(TRUE), z_index |-> Some(1)] }

UpdateCommands ==
    {[enum |-> "Application", variant |-> "Add", pid |-> 1, reply |-> "open"]}
    \cup {[enum |-> "Property", variant |-> "SetDefaultHint", hint |-> AppHintIn]}
    \cup {c \in CtlWindowAdds : c.app_key = CtlAppKey /\ c.reply = "open"}
    \cup {[enum |-> "Window", variant |-> "Update", win_key |-> 1, update |-> u] :
              u \in UpdateInputs}

Update_send ==
    \E cmd \in UpdateCommands :
        /\ Len(queue) < MaxQueued
        /\ (cmd.enum = "Window" /\ cmd.variant = "Add") =>
              next_uid + Cardinality({i \in DOMAIN queue :
                  queue[i].enum = "Window" /\ queue[i].variant = "Add"}) < MaxCtlWindows
        /\ do_send(cmd)
        /\ UNCHANGED histvars

\* the driver takes every upload here
Update_serve ==
    \E perm \in UidPerms :
        serve(perm, TRUE) /\ UNCHANGED histvars

UpdateNext ==
    \/ Update_send
    \/ Update_serve

SpecUpdate == Init /\ [][UpdateNext]_vars

-----------------------------------------------------------------------------
\* dbus/pinenotectl/hintmgr1.rs: the D-Bus methods of HintMgr1. A hint string
\* is given as the tokens str.split("|") yields: the empty string is the one
\* empty token.

\* fdo::Error::InvalidArgs
InvalidArgs(msg) == [kind |-> "InvalidArgs", msg |-> msg]

\* Hint::try_from_human_readable, the loop over the tokens: bitdepth, convert
\* and redraw after the tokens, or Invalid
RECURSIVE fold_tokens(_, _)
fold_tokens(tokens, acc) ==
    IF tokens = <<>> THEN Ok(acc)
    ELSE LET token == Head(tokens)
         IN  IF token = "Y4" THEN fold_tokens(Tail(tokens), [acc EXCEPT !.bitdepth = Some(Y4)])
             ELSE IF token = "Y2" THEN fold_tokens(Tail(tokens), [acc EXCEPT !.bitdepth = Some(Y2)])
             ELSE IF token = "Y1" THEN fold_tokens(Tail(tokens), [acc EXCEPT !.bitdepth = Some(Y1)])
             ELSE IF token = "T" THEN fold_tokens(Tail(tokens), [acc EXCEPT !.convert = Threshold])
             ELSE IF token = "D" THEN fold_tokens(Tail(tokens), [acc EXCEPT !.convert = Dither])
             ELSE IF token = "R" THEN fold_tokens(Tail(tokens), [acc EXCEPT !.redraw = TRUE])
             ELSE IF token = "r" THEN fold_tokens(Tail(tokens), [acc EXCEPT !.redraw = FALSE])
             ELSE Err("Invalid")

\* Mutant of try_from_human_readable: a string without bit depth gets Y4.
try_from_human_readable_default_depth(str) ==
    LET parts == fold_tokens(str, [bitdepth |-> Some(Y4), convert |-> Threshold,
                                   redraw |-> FALSE])
    IN  IF ~parts.ok THEN parts
        ELSE Ok(Hint_new(expect(parts.val.bitdepth), parts.val.convert,
                         parts.val.redraw))

\* Hint::try_from_human_readable
try_from_human_readable(str) ==
    LET parts == fold_tokens(str, [bitdepth |-> None, convert |-> Threshold,
                                   redraw |-> FALSE])
    IN  IF ~parts.ok THEN parts
        ELSE IF parts.val.bitdepth = None THEN Err("Invalid")
        ELSE Ok(Hint_new(expect(parts.val.bitdepth), parts.val.convert,
                         parts.val.redraw))

\* Bit n of a u8, and the operators &, ! and >> on u8.
Bit(v, n) == (v \div (2 ^ n)) % 2

RECURSIVE And8From(_, _, _)
And8From(a, b, n) ==
    IF n > 7 THEN 0
    ELSE Bit(a, n) * Bit(b, n) * (2 ^ n) + And8From(a, b, n + 1)

And8(a, b) == And8From(a, b, 0)
Not8(a) == 255 - a
Shr8(v, n) == v \div (2 ^ n)

BIT_DEPTH_MASK == Shl8(3, BIT_DEPTH_SHIFT)
CONVERT_MASK == Shl8(1, CONVERT_SHIFT)
REDRAW_MASK == Shl8(1, REDRAW_SHIFT)

\* Hint::extract_bit_depth
extract_bit_depth(repr) == Shr8(And8(repr, BIT_DEPTH_MASK), BIT_DEPTH_SHIFT)

\* Hint::extract_convert_mode
extract_convert_mode(repr) == Shr8(And8(repr, CONVERT_MASK), CONVERT_SHIFT)

\* Hint::extract_redraw
extract_redraw(repr) == Shr8(And8(repr, REDRAW_MASK), REDRAW_SHIFT) # 0

\* HintBitDepth::try_from_primitive, HintConvertMode::try_from_primitive
HintBitDepth_try_from_primitive(val) ==
    IF val \in {Y1, Y2, Y4} THEN Ok(val) ELSE Err("BitDepth")

HintConvertMode_try_from_primitive(val) ==
    IF val \in {Threshold, Dither} THEN Ok(val) ELSE Err("ConvertMode")

\* Hint::bit_depth, Hint::convert_mode, Hint::redraw; a hint is only built by
\* Hint::new, so the expect and the unwrap find a value
bit_depth(self) == HintBitDepth_try_from_primitive(extract_bit_depth(self.repr)).val
convert_mode(self) == HintConvertMode_try_from_primitive(extract_convert_mode(self.repr)).val
redraw(self) == extract_redraw(self.repr)

\* Hint::try_from_part
try_from_part(bit_depth_in, convert_mode_in, redraw_in) ==
    LET bd == HintBitDepth_try_from_primitive(bit_depth_in)
        cm == HintConvertMode_try_from_primitive(convert_mode_in)
    IN  IF ~bd.ok THEN bd
        ELSE IF ~cm.ok THEN cm
        ELSE Ok(Hint_new(bd.val, cm.val, redraw_in))

\* Mutant of from_str: the reserved bits are not looked at.
from_str_any_reserved(parsed) ==
    IF ~parsed.ok THEN parsed
    ELSE try_from_part(extract_bit_depth(parsed.val),
                       extract_convert_mode(parsed.val),
                       extract_redraw(parsed.val))

\* impl FromStr for Hint; parsed is what s.parse::<u8>() gave: Ok(repr) for
\* the decimal form of a byte, Err otherwise
from_str(parsed) ==
    IF ~parsed.ok THEN parsed
    ELSE LET repr == parsed.val
             mask == Not8(BIT_DEPTH_MASK + CONVERT_MASK + REDRAW_MASK)
         IN  IF And8(repr, mask) # 0 THEN Err("Invalid")
             ELSE try_from_part(extract_bit_depth(repr),
                                extract_convert_mode(repr),
                                extract_redraw(repr))

\* impl From<Hint> for u8
u8_from(value) == value.repr

\* Mutant of Hint_fmt: the convert mode is not written.
Hint_fmt_no_convert(self) ==
    << IF bit_depth(self) = Y4 THEN "Y4"
       ELSE IF bit_depth(self) = Y2 THEN "Y2" ELSE "Y1",
       IF redraw(self) THEN "R" ELSE "r" >>

\* impl Display for Hint: "{depth}|{convert}|{redraw}", as the tokens that
\* str.split("|") finds in it
Hint_fmt(self) ==
    << IF bit_depth(self) = Y4 THEN "Y4"
       ELSE IF bit_depth(self) = Y2 THEN "Y2" ELSE "Y1",
       IF convert_mode(self) = Threshold THEN "T" ELSE "D",
       IF redraw(self) THEN "R" ELSE "r" >>

\* parse_hint: Result<Option<Hint>>
parse_hint(hint) ==
    IF hint = <<"">> THEN Ok(None)
    ELSE IF try_from_human_readable(hint).ok
    THEN Ok(Some(try_from_human_readable(hint).val))
    ELSE Err(InvalidArgs("Unrecognized Hint"))

\* Mutant of validate_rect: y1 > y2 is let through.
validate_rect_no_y_order(rect) ==
    IF rect.x1 < 0 \/ rect.y1 < 0 \/ rect.x1 > rect.x2
    THEN Err(InvalidArgs("Bad Rectangle"))
    ELSE Ok(rect)

\* validate_rect
validate_rect(rect) ==
    IF rect.x1 < 0 \/ rect.y1 < 0 \/ rect.x1 > rect.x2 \/ rect.y1 > rect.y2
    THEN Err(InvalidArgs("Bad Rectangle"))
    ELSE Ok(rect)

\* A method returns res without having sent anything.
ipc_return(method, args, res) ==
    /\ last_ipc' = [op |-> method, args |-> args, res |-> res]
    /\ UNCHANGED <<queue, driver_hints, last_dispatch, sent, history, producers,
                   bridge, pmvars, zvars, lifevars>>

\* self.tx.send(cmd) / with_reply(cmd, rx) up to the reply: the command is in
\* the channel
ipc_send(method, args, cmd) ==
    /\ do_send(cmd)
    /\ last_ipc' = [op |-> method, args |-> args, res |-> Ok(Unit)]
    /\ UNCHANGED <<sent, history, producers, bridge>>

\* HintMgr1::app_register
HintMgr1_app_register(pid) ==
    IF pid <= 0
    THEN ipc_return("app_register", <<pid>>, Err("UnixProcessIdUnknown"))
    ELSE ipc_send("app_register", <<pid>>,
                  [enum |-> "Application", variant |-> "Add", pid |-> pid,
                   reply |-> "open"])

\* HintMgr1::window_add
HintMgr1_window_add(app_key, win) ==
    IF ~parse_hint(win.hint).ok
    THEN ipc_return("window_add", <<app_key, win>>, parse_hint(win.hint))
    ELSE IF ~validate_rect(win.area).ok
    THEN ipc_return("window_add", <<app_key, win>>, validate_rect(win.area))
    ELSE ipc_send("window_add", <<app_key, win>>,
                  [enum |-> "Window", variant |-> "Add", app_key |-> app_key,
                   title |-> win.title, area |-> validate_rect(win.area).val,
                   hint |-> parse_hint(win.hint).val, visible |-> win.visible,
                   z_index |-> win.z_index, reply |-> "open"])

\* HintMgr1::window_update
HintMgr1_window_update(win_key, win) ==
    IF ~parse_hint(win.hint).ok
    THEN ipc_return("window_update", <<win_key, win>>, parse_hint(win.hint))
    ELSE IF ~validate_rect(win.area).ok
    THEN ipc_return("window_update", <<win_key, win>>, validate_rect(win.area))
    ELSE ipc_send("window_update", <<win_key, win>>,
                  [enum |-> "Window", variant |-> "Update", win_key |-> win_key,
                   update |-> [title |-> Some(win.title),
                               area |-> Some(validate_rect(win.area).val),
                               hint |-> Some(parse_hint(win.hint).val),
                               visible |-> Some(win.visible),
                               z_index |-> Some(win.z_index)]])

\* HintMgr1::window_update_area
HintMgr1_window_update_area(win_key, area) ==
    IF ~validate_rect(area).ok
    THEN ipc_return("window_update_area", <<win_key, area>>, validate_rect(area))
    ELSE ipc_send("window_update_area", <<win_key, area>>,
                  [enum |-> "Window", variant |-> "Update", win_key |-> win_key,
                   update |-> [NoUpdate EXCEPT !.area = Some(validate_rect(area).val)]])

-----------------------------------------------------------------------------
\* The IPC specification: a D-Bus client calls the methods of HintMgr1 with
\* good and bad arguments, the dispatcher serves what they enqueue.

\* Windows created in one behaviour of the IPC specification.
MaxIpcWindows == 1

\* areas: two that pass (one of them empty), and one for each rule broken
IpcAreas ==
    { Rect_new(0, 0, 2, 1), Rect_new(1, 1, 1, 1),
      Rect_new(-1, 0, 2, 1), Rect_new(0, -1, 2, 1),
      Rect_new(2, 0, 1, 1), Rect_new(0, 1, 2, 0) }

\* hint strings: "", "Y2|D|R", "D" and "Y1|X"
IpcHints == { <<"">>, <<"Y2", "D", "R">>, <<"D">>, <<"Y1", "X">> }

\* struct Window of hintmgr1.rs
IpcWindows ==
    {[title |-> "w", area |-> a, hint |-> h, visible |-> TRUE, z_index |-> 0] :
        a \in IpcAreas, h \in IpcHints}

Ipc_app_register == \E pid \in 0..1 : HintMgr1_app_register(pid)

Ipc_window_add ==
    /\ Len(queue) < MaxQueued
    /\ next_uid + Cardinality({i \in DOMAIN queue :
            queue[i].enum = "Window" /\ queue[i].variant = "Add"}) < MaxIpcWindows
    /\ \E win \in IpcWindows : HintMgr1_window_add(CtlAppKey, win)

Ipc_window_update ==
    /\ Len(queue) < MaxQueued
    /\ \E win \in IpcWindows : HintMgr1_window_update(1, win)

Ipc_window_update_area ==
    /\ Len(queue) < MaxQueued
    /\ \E area \in IpcAreas : HintMgr1_window_update_area(1, area)

\* the driver takes every upload here
Ipc_serve ==
    \E perm \in UidPerms :
        serve(perm, TRUE) /\ UNCHANGED histvars

IpcNext ==
    \/ Len(queue) < MaxQueued /\ Ipc_app_register
    \/ Ipc_window_add
    \/ Ipc_window_update
    \/ Ipc_window_update_area
    \/ Ipc_serve

SpecIpc == Init /\ [][IpcNext]_vars

-----------------------------------------------------------------------------
\* Specification of the Hint conversions: a hint is built, formatted and
\* parsed back; a string is parsed; a numeric value is parsed.

\* The tokens a string is made of: the seven the parser knows, the empty one
\* and two it does not know.
HintTokens == {"Y1", "Y2", "Y4", "T", "D", "R", "r", "", "X", "y4"}

RECURSIVE TokenSeqs(_)
TokenSeqs(n) ==
    IF n = 0 THEN {<<>>}
    ELSE {Append(s, t) : s \in TokenSeqs(n - 1), t \in HintTokens}

\* str.split("|") of any string gives at least one token.
HintStrings == UNION {TokenSeqs(n) : n \in 1..MaxTokens}

\* What s.parse::<u8>() gives for the strings handed to from_str.
ParsedBytes == {Ok(b) : b \in 0..255} \cup {Err("Parse")}

hint_idle == last_hint = NoCall /\ UNCHANGED <<nodes, inserted, rets, split_rect, last_mask, pmvars, ctlvars>>

\* let h = Hint::new(..); let s = h.to_string(); Hint::try_from_human_readable(&s)
HintRoundTrip ==
    /\ hint_idle
    /\ \E bd \in {Y1, Y2, Y4}, cm \in {Threshold, Dither}, rd \in BOOLEAN :
         LET h == Hint_new(bd, cm, rd)
         IN  last_hint' = [op |-> "to_string", bit_depth |-> bd, convert_mode |-> cm,
                           redraw |-> rd, hint |-> h, packed |-> u8_from(h),
                           str |-> Hint_fmt(h),
                           res |-> try_from_human_readable(Hint_fmt(h))]

\* Hint::try_from_human_readable(str)
HintParse ==
    /\ hint_idle
    /\ \E str \in HintStrings :
         last_hint' = [op |-> "try_from_human_readable", str |-> str,
                       res |-> try_from_human_readable(str)]

\* s.parse::<Hint>()
HintFromStr ==
    /\ hint_idle
    /\ \E parsed \in ParsedBytes :
         last_hint' = [op |-> "from_str", parsed |-> parsed, res |-> from_str(parsed)]

HintCodecNext == HintRoundTrip \/ HintParse \/ HintFromStr

SpecHintCodec == Init /\ [][HintCodecNext]_vars

-----------------------------------------------------------------------------
\* The ordering specification: several producers fill the channel with up to
\* MaxSent commands in all, the dispatcher serves them; what was enqueued and
\* what each dispatch did is recorded in order.

\* Commands enqueued in one behaviour of the ordering specification.
MaxSent == 4

OrderCommands ==
    {[enum |-> "Application", variant |-> "Add", pid |-> 1, reply |-> r] : r \in Replies}
    \cup {[enum |-> "Property", variant |-> "SetDefaultHint", hint |-> AppHintIn]}
    \cup {c \in CtlWindowAdds : c.app_key = CtlAppKey}
    \cup {c \in CtlWindowUpdates : c.win_key = 1}

\* One entry of history: the dispatch just made and the registry it left.
HistoryEntry(d, pm) ==
    [cmd |-> d.cmd, reply |-> d.reply, upload |-> d.upload, res |-> d.res, pm |-> pm]

Order_send ==
    \E cmd \in OrderCommands :
        /\ Len(sent) < MaxSent
        /\ (cmd.enum = "Window" /\ cmd.variant = "Add") =>
              Cardinality({i \in DOMAIN sent :
                  sent[i].enum = "Window" /\ sent[i].variant = "Add"}) < MaxCtlWindows
        /\ do_send(cmd)
        /\ sent' = Append(sent, cmd)
        /\ UNCHANGED <<history, last_ipc, producers, bridge>>

Order_serve ==
    \E perm \in UidPerms, sink_ok \in BOOLEAN :
        /\ serve(perm, sink_ok)
        /\ history' = Append(history, HistoryEntry(last_dispatch', pixel_manager'))
        /\ UNCHANGED <<sent, last_ipc, producers, bridge>>

Order_close == drop_senders /\ UNCHANGED histvars

Order_return == serve_return /\ UNCHANGED histvars

OrderNext ==
    \/ Order_send
    \/ Order_serve
    \/ Order_close
    \/ Order_return

SpecOrder == Init /\ [][OrderNext]_vars

\* rx.recv(): the serve task takes the oldest command out of the channel.
recv == serve_pc = "recv" /\ queue # <<>> /\ queue' = Tail(queue)

\* The serve task is scheduled as long as the runtime lives: a waiting command
\* is taken in the end, and so is the end of the channel.
SpecOrderFair == SpecOrder /\ WF_queue(recv) /\ WF_serve_pc(Order_return)

-----------------------------------------------------------------------------
\* Specification of the producers: each task calls with_reply once, with an
\* Application::Add or a Window::Add; the dispatcher serves the channel.

ProducerCommands ==
    {[enum |-> "Application", variant |-> "Add", pid |-> 1, reply |-> "open"]}
    \cup {c \in CtlWindowAdds : c.app_key = CtlAppKey /\ c.z_index = 1}

\* with_reply is called: the command is built, its oneshot receiver is kept
with_reply_call(p, cmd) ==
    /\ producers[p].pc = "idle"
    /\ producers' = [producers EXCEPT ![p] = [@ EXCEPT !.pc = "send", !.cmd = Some(cmd)]]
    /\ UNCHANGED <<queue, driver_hints, last_dispatch, sent, history, last_ipc,
                   bridge, pmvars, zvars, lifevars>>

\* self.do_send(cmd, &ctx_str).await?: the command enters the channel once
\* there is room
with_reply_send(p) ==
    /\ producers[p].pc = "send"
    /\ do_send(expect(producers[p].cmd))
    /\ sent' = Append(sent, expect(producers[p].cmd))
    /\ producers' = [producers EXCEPT ![p] = [@ EXCEPT !.pc = "await",
                                                       !.ticket = Len(sent) + 1]]
    /\ UNCHANGED <<history, last_ipc, bridge>>

\* What the oneshot receiver of the n-th command gives once the command was
\* dispatched: the value sent, or the receive error when the sender was
\* dropped without a value.
reply_await(n) ==
    IF history[n].reply # None THEN Ok(expect(history[n].reply))
    ELSE Err("Failed to get reply")

\* Mutant of with_reply_resume: the task is only resumed by a value.
with_reply_resume_value_only(p) ==
    /\ producers[p].pc = "await"
    /\ producers[p].ticket <= Len(history)
    /\ history[producers[p].ticket].reply # None
    /\ producers' = [producers EXCEPT ![p] = [@ EXCEPT !.pc = "resumed",
                          !.got = Some(reply_await(producers[p].ticket))]]
    /\ UNCHANGED <<queue, driver_hints, last_dispatch, sent, history, last_ipc,
                   bridge, pmvars, zvars, lifevars>>

\* reply.await.with_context(..): with_reply returns once the dispatcher sent
\* on the reply channel or dropped its sender
with_reply_resume(p) ==
    /\ producers[p].pc = "await"
    /\ producers[p].ticket <= Len(history)
    /\ producers' = [producers EXCEPT ![p] = [@ EXCEPT !.pc = "resumed",
                          !.got = Some(reply_await(producers[p].ticket))]]
    /\ UNCHANGED <<queue, driver_hints, last_dispatch, sent, history, last_ipc,
                   bridge, pmvars, zvars, lifevars>>

Producer_call ==
    \E p \in Producers, cmd \in ProducerCommands :
        /\ (cmd.enum = "Window") =>
              Cardinality({q \in Producers : producers[q].cmd # None
                              /\ expect(producers[q].cmd).enum = "Window"}) < MaxCtlWindows
        /\ with_reply_call(p, cmd)

Producer_send == \E p \in Producers : with_reply_send(p)

Producer_resume == \E p \in Producers : with_reply_resume(p)

Producer_serve == Order_serve

ProducerNext ==
    \/ Producer_call
    \/ Producer_send
    \/ Producer_serve
    \/ Producer_resume

SpecProducers == Init /\ [][ProducerNext]_vars

\* The tasks of the runtime are all scheduled: the serve task takes a waiting
\* command, a producer whose send has room enqueues, and a producer whose
\* reply channel is settled goes on.
SpecProducersFair ==
    /\ SpecProducers
    /\ WF_queue(recv)
    /\ \A p \in Producers : WF_vars(with_reply_send(p))
    /\ \A p \in Producers : WF_vars(with_reply_resume(p))

-----------------------------------------------------------------------------
\* bridge/quill_niri.rs

\* The order the windows of the registry are iterated in during a pass.
BridgePerm == [i \in 1..(2 * MaxPasses) |-> i]

\* Rect::from_xywh as the bridges use it
Rect_from_xywh(x, y, width, height) == Rect_new(x, y, x + width, y + height)

\* tx.send(..) and the send of tx.with_reply(..) in a bridge: the command
\* enters the channel once there is room
bridge_send(cmd) ==
    /\ do_send(cmd)
    /\ sent' = Append(sent, cmd)
    /\ UNCHANGED <<history, last_ipc, producers>>

\* A step of a bridge that sends nothing.
bridge_local ==
    UNCHANGED <<queue, driver_hints, last_dispatch, sent, history, last_ipc,
                producers, pmvars, zvars, lifevars>>

\* main_manage is entered and calls remove_all: the keys of app_meta are
\* collected
niri_remove_all_keys ==
    /\ bridge.pc = "idle"
    /\ bridge.passes < MaxPasses
    /\ bridge' = [bridge EXCEPT !.pc = "remove_all", !.passes = @ + 1,
                     !.removing = [i \in 1..Cardinality(DOMAIN bridge.app_meta) |->
                                     bridge.app_meta[sorted_keys(DOMAIN bridge.app_meta)[i]].key]]
    /\ bridge_local

\* remove_all, the loop: tx.send(Application::Remove(key)).await.ok()
niri_remove_all_send ==
    /\ bridge.pc = "remove_all"
    /\ bridge.removing # <<>>
    /\ bridge_send([enum |-> "Application", variant |-> "Remove",
                    app_key |-> Head(bridge.removing)])
    /\ bridge' = [bridge EXCEPT !.removing = Tail(@)]

\* remove_all, the end: app_meta.clear(); window_meta.clear()
remove_all(br) == [br EXCEPT !.app_meta = <<>>, !.window_meta = <<>>]

\* main_manage after remove_all; fetched is None when a request to niri
\* failed, and Some(new_niri_windows), sorted and clipped, otherwise
main_manage(fetched) ==
    /\ bridge.pc = "remove_all"
    /\ bridge.removing = <<>>
    /\ bridge' =
         IF fetched = None \/ expect(fetched) = bridge.previous_windows
         THEN [remove_all(bridge) EXCEPT !.pc = "idle",
                  !.last = [op |-> "main_manage", fetched |-> fetched, changed |-> FALSE]]
         ELSE [remove_all(bridge) EXCEPT
                  !.previous_windows = expect(fetched),
                  !.pending = expect(fetched),
                  !.pc = IF expect(fetched) = <<>> THEN "idle" ELSE "add_app",
                  !.last = [op |-> "main_manage", fetched |-> fetched, changed |-> TRUE]]
    /\ bridge_local

\* QuillNiriBridge::add_app, the call of with_reply
niri_add_app_send ==
    /\ bridge.pc = "add_app"
    /\ bridge_send([enum |-> "Application", variant |-> "Add",
                    pid |-> Head(bridge.pending).geometry.id, reply |-> "open"])
    /\ bridge' = [bridge EXCEPT !.pc = "await_app", !.ticket = Len(sent) + 1]

\* The bridge goes on to the next window of the loop of main_manage.
niri_next_window(br) ==
    [br EXCEPT !.pending = Tail(@),
               !.pc = IF Tail(br.pending) = <<>> THEN "idle" ELSE "add_app"]

\* QuillNiriBridge::add_app after the reply: app_meta.insert(pid, (app_key,
\* {})); an Err ends this window's turn of the loop
niri_add_app_reply ==
    /\ bridge.pc = "await_app"
    /\ bridge.ticket <= Len(history)
    /\ bridge' =
         IF reply_await(bridge.ticket).ok
         THEN [bridge EXCEPT !.pc = "add_window",
                  !.app_key = reply_await(bridge.ticket).val,
                  !.app_meta = map_insert(@, Head(bridge.pending).geometry.id,
                                  [key |-> reply_await(bridge.ticket).val, wins |-> {}])]
         ELSE niri_next_window(bridge)
    /\ bridge_local

\* QuillNiriBridge::add_window, the command
niri_window_add(win, app_key) ==
    [enum |-> "Window", variant |-> "Add", app_key |-> app_key, title |-> win.title,
     area |-> Rect_from_xywh(win.geometry.x, win.geometry.y,
                             win.geometry.width, win.geometry.height),
     hint |-> Some(win.setting), visible |-> TRUE, z_index |-> 0, reply |-> "open"]

\* QuillNiriBridge::add_window, the call of with_reply
niri_add_window_send ==
    /\ bridge.pc = "add_window"
    /\ bridge_send(niri_window_add(Head(bridge.pending), bridge.app_key))
    /\ bridge' = [bridge EXCEPT !.pc = "await_window", !.ticket = Len(sent) + 1]

\* QuillNiriBridge::add_window after the reply: window_meta.insert(win_id,
\* (win_key, win)) and the window joins its application's set
niri_add_window_reply ==
    /\ bridge.pc = "await_window"
    /\ bridge.ticket <= Len(history)
    /\ bridge' =
         IF reply_await(bridge.ticket).ok
         THEN [niri_next_window(bridge) EXCEPT
                  !.window_meta = map_insert(@, Head(bridge.pending).geometry.id,
                                    [key |-> reply_await(bridge.ticket).val,
                                     win |-> Head(bridge.pending)]),
                  !.app_meta = IF Head(bridge.pending).geometry.id \in DOMAIN @
                               THEN [@ EXCEPT ![Head(bridge.pending).geometry.id].wins =
                                         @ \cup {Head(bridge.pending).geometry.id}]
                               ELSE @]
         ELSE niri_next_window(bridge)
    /\ bridge_local

\* The windows niri reports: two windows side by side, and the first one
\* after it was resized.
NiriWindow(id, x, width) ==
    [title |-> "w", setting |-> WinHintIn1,
     geometry |-> [id |-> id, x |-> x, y |-> 0, width |-> width, height |-> 1]]

NiriFetches ==
    {None, Some(<<>>),
     Some(<<NiriWindow(1, 0, 1)>>),
     Some(<<NiriWindow(1, 0, 1), NiriWindow(2, 1, 1)>>),
     Some(<<NiriWindow(1, 0, 2)>>)}

Niri_main_manage == \E fetched \in NiriFetches : main_manage(fetched)

\* Ctl::serve next to the bridge; the driver accepts or rejects the upload
Niri_serve ==
    \E sink_ok \in BOOLEAN :
        /\ serve(BridgePerm, sink_ok)
        /\ history' = Append(history, HistoryEntry(last_dispatch', pixel_manager'))
        /\ UNCHANGED <<sent, last_ipc, producers, bridge>>

NiriNext ==
    \/ niri_remove_all_keys
    \/ niri_remove_all_send
    \/ Niri_main_manage
    \/ niri_add_app_send
    \/ niri_add_app_reply
    \/ niri_add_window_send
    \/ niri_add_window_reply
    \/ Niri_serve

SpecNiri == Init /\ [][NiriNext]_vars

\* A pass of main_manage has returned and the dispatcher has taken every
\* command of it without an error.
NiriPassDone ==
    /\ bridge.pc = "idle"
    /\ bridge.passes > 0
    /\ queue = <<>>
    /\ \A i \in DOMAIN history : history[i].res.ok

\* The registry holds exactly one window for every window of wins, with its
\* title, area and hint, under one application per window.
NiriRegistered(wins) ==
    /\ Cardinality(DOMAIN pixel_manager.windows) = Len(wins)
    /\ Cardinality(DOMAIN pixel_manager.applications) = Len(wins)
    /\ DOMAIN bridge.window_meta = {wins[i].geometry.id : i \in DOMAIN wins}
    /\ \A i \in DOMAIN wins :
         /\ wins[i].geometry.id \in DOMAIN bridge.window_meta
         /\ bridge.window_meta[wins[i].geometry.id].key \in DOMAIN pixel_manager.windows
         /\ pixel_manager.windows[bridge.window_meta[wins[i].geometry.id].key].data =
               WindowData(wins[i].title,
                          Rect_from_xywh(wins[i].geometry.x, wins[i].geometry.y,
                                         wins[i].geometry.width, wins[i].geometry.height),
                          Some(wins[i].setting), TRUE, 0)

\* C39: after every main_manage pass of the niri bridge the applications and
\* windows registered with the dispatcher correspond one-to-one to the windows
\* of previous_windows; a pass that finds the window list unchanged leaves the
\* windows of that list registered.
C39_RegisteredMatchesPrevious == NiriPassDone => NiriRegistered(bridge.previous_windows)

\* A pass found the window list unchanged, the list is not empty, and once
\* the dispatcher has taken the commands of the pass nothing is registered.
C39_Witness ==
    /\ NiriPassDone
    /\ bridge.last.op = "main_manage"
    /\ bridge.last.fetched # None
    /\ ~bridge.last.changed
    /\ bridge.previous_windows # <<>>
    /\ DOMAIN pixel_manager.windows = {}
    /\ DOMAIN pixel_manager.applications = {}

-----------------------------------------------------------------------------
\* bridge/sway.rs, bridge/sway/utils.rs

\* struct SwayWindow as TryFrom<&Node> builds it: z_index is 0
SwayWindow(id, pid, title, area, visible, floating, hint) ==
    [id |-> id, pid |-> pid, title |-> title, area |-> area, visible |-> visible,
     floating |-> floating, fullscreen |-> FALSE, hint |-> hint, z_index |-> 0]

\* get_all_windows_and_app, the windows: a floating window takes the next
\* floating_idx as its z_index; the transform is Matrix3::identity()
RECURSIVE get_all_windows(_, _)
get_all_windows(windows, floating_idx) ==
    IF windows = <<>> THEN <<>>
    ELSE IF Head(windows).floating
    THEN <<[Head(windows) EXCEPT !.z_index = floating_idx]>>
         \o get_all_windows(Tail(windows), floating_idx + 1)
    ELSE <<Head(windows)>> \o get_all_windows(Tail(windows), floating_idx)

\* get_all_windows_and_app, the pid set
get_all_app(windows) == {windows[i].pid : i \in DOMAIN windows}

\* The keys of a map outside a set, in a list.
stale_keys(m, keep) == sorted_keys(DOMAIN m \ keep)

\* SwayWindow::diff
SwayWindow_diff(self, other) ==
    IF self # other
    THEN Some([title |-> IF self.title # other.title THEN Some(other.title) ELSE None,
               area |-> IF self.area # other.area THEN Some(other.area) ELSE None,
               hint |-> IF self.hint # other.hint THEN Some(other.hint) ELSE None,
               visible |-> IF self.visible # other.visible THEN Some(other.visible)
                           ELSE None,
               z_index |-> IF self.z_index # other.z_index THEN Some(other.z_index)
                           ELSE None])
    ELSE None

\* process_tree up to remove_stale_apps; tree is None when get_tree failed or
\* the output or its focused workspace is missing, and the nodes of the
\* workspace that are windows otherwise
process_tree(tree) ==
    /\ bridge.pc = "idle"
    /\ bridge.passes < MaxPasses
    /\ bridge' =
         IF tree = None
         THEN [bridge EXCEPT !.passes = @ + 1,
                  !.last = [op |-> "process_tree", ok |-> FALSE]]
         ELSE [bridge EXCEPT !.passes = @ + 1,
                  !.pc = "remove_stale_apps",
                  !.snapshot = get_all_windows(expect(tree), 1),
                  !.removing = stale_keys(bridge.app_meta, get_all_app(expect(tree))),
                  !.last = [op |-> "process_tree", ok |-> FALSE]]
    /\ bridge_local

\* Mutant of remove_stale_app: the application stays in app_meta.
remove_stale_app_keep_meta(br, p) ==
    [br EXCEPT !.removing = Tail(@),
               !.window_meta = [k \in DOMAIN @ \ br.app_meta[p].wins |-> @[k]]]

\* remove_stale_apps, the bridge after one stale pid: app_meta.remove(&p) and
\* window_meta.remove(&id) for each of its windows
remove_stale_app(br, p) ==
    [br EXCEPT !.removing = Tail(@),
               !.app_meta = map_remove(@, p),
               !.window_meta = [k \in DOMAIN @ \ br.app_meta[p].wins |-> @[k]]]

\* remove_stale_apps, one turn of the loop
sway_remove_stale_app ==
    /\ bridge.pc = "remove_stale_apps"
    /\ bridge.removing # <<>>
    /\ bridge_send([enum |-> "Application", variant |-> "Remove",
                    app_key |-> bridge.app_meta[Head(bridge.removing)].key])
    /\ bridge' = remove_stale_app(bridge, Head(bridge.removing))

\* process_tree after remove_stale_apps: the pids without an application
sway_apps ==
    /\ bridge.pc = "remove_stale_apps"
    /\ bridge.removing = <<>>
    /\ bridge' = [bridge EXCEPT !.pc = "add_apps",
                     !.pids = get_all_app(bridge.snapshot) \ DOMAIN bridge.app_meta]
    /\ bridge_local

\* SwayBridge::add_app, the call of with_reply; pid_set is iterated in any
\* order
sway_add_app_send ==
    /\ bridge.pc = "add_apps"
    /\ \E pid \in bridge.pids :
         /\ bridge_send([enum |-> "Application", variant |-> "Add", pid |-> pid,
                         reply |-> "open"])
         /\ bridge' = [bridge EXCEPT !.pc = "await_app", !.pids = @ \ {pid},
                          !.app_key = pid, !.ticket = Len(sent) + 1]

\* SwayBridge::add_app after the reply: app_meta.insert(pid, (app_key, {}));
\* an Err ends process_tree
sway_add_app_reply ==
    /\ bridge.pc = "await_app"
    /\ bridge.ticket <= Len(history)
    /\ bridge' =
         IF reply_await(bridge.ticket).ok
         THEN [bridge EXCEPT !.pc = "add_apps",
                  !.app_meta = map_insert(@, bridge.app_key,
                                  [key |-> reply_await(bridge.ticket).val, wins |-> {}])]
         ELSE [bridge EXCEPT !.pc = "idle"]
    /\ bridge_local

\* process_tree after the loop over pid_set: the loop over windows begins
sway_windows ==
    /\ bridge.pc = "add_apps"
    /\ bridge.pids = {}
    /\ bridge' = [bridge EXCEPT !.pc = "windows", !.pending = bridge.snapshot]
    /\ bridge_local

\* SwayBridge::add_window, the command
sway_window_add(win, app_key) ==
    [enum |-> "Window", variant |-> "Add", app_key |-> app_key, title |-> win.title,
     area |-> win.area, hint |-> win.hint, visible |-> win.visible,
     z_index |-> win.z_index, reply |-> "open"]

\* SwayBridge::add_window up to the call of with_reply; the expect panics
\* when the window's pid has no entry in app_meta
sway_add_window_send ==
    /\ bridge.pc = "windows"
    /\ bridge.pending # <<>>
    /\ Head(bridge.pending).id \notin DOMAIN bridge.window_meta
    /\ IF Head(bridge.pending).pid \in DOMAIN bridge.app_meta
       THEN /\ bridge_send(sway_window_add(Head(bridge.pending),
                               bridge.app_meta[Head(bridge.pending).pid].key))
            /\ bridge' = [bridge EXCEPT !.pc = "await_window", !.ticket = Len(sent) + 1]
       ELSE /\ bridge' = [bridge EXCEPT !.pc = "panicked"]
            /\ bridge_local

\* SwayBridge::add_window after the reply: window_meta.insert(id, (win_key,
\* win)); app_meta.1.insert(id); an Err ends process_tree
sway_add_window_reply ==
    /\ bridge.pc = "await_window"
    /\ bridge.ticket <= Len(history)
    /\ bridge' =
         IF reply_await(bridge.ticket).ok
         THEN [bridge EXCEPT !.pc = "windows", !.pending = Tail(@),
                  !.window_meta = map_insert(@, Head(bridge.pending).id,
                                    [key |-> reply_await(bridge.ticket).val,
                                     win |-> Head(bridge.pending)]),
                  !.app_meta[Head(bridge.pending).pid].wins =
                      @ \cup {Head(bridge.pending).id}]
         ELSE [bridge EXCEPT !.pc = "idle"]
    /\ bridge_local

\* SwayBridge::update_window: the differing fields are sent, and the window
\* is stored; an equal window sends nothing
sway_update_window ==
    /\ bridge.pc = "windows"
    /\ bridge.pending # <<>>
    /\ Head(bridge.pending).id \in DOMAIN bridge.window_meta
    /\ IF SwayWindow_diff(bridge.window_meta[Head(bridge.pending).id].win,
                          Head(bridge.pending)) # None
       THEN /\ bridge_send([enum |-> "Window", variant |-> "Update",
                   win_key |-> bridge.window_meta[Head(bridge.pending).id].key,
                   update |-> expect(SwayWindow_diff(
                                 bridge.window_meta[Head(bridge.pending).id].win,
                                 Head(bridge.pending)))])
            /\ bridge' = [bridge EXCEPT !.pending = Tail(@),
                             !.window_meta[Head(bridge.pending).id].win =
                                 Head(bridge.pending)]
       ELSE /\ bridge' = [bridge EXCEPT !.pending = Tail(@)]
            /\ bridge_local

\* process_tree after the loop over windows: the ids outside win_set
sway_stale_windows ==
    /\ bridge.pc = "windows"
    /\ bridge.pending = <<>>
    /\ bridge' = [bridge EXCEPT !.pc = "remove_stale_windows",
                     !.removing = stale_keys(bridge.window_meta,
                                     {bridge.snapshot[i].id : i \in DOMAIN bridge.snapshot})]
    /\ bridge_local

\* remove_stale_windows, one turn of the loop: window_meta.remove(&wid),
\* Window::Remove(win_key) is sent, the application forgets the window
sway_remove_stale_window ==
    /\ bridge.pc = "remove_stale_windows"
    /\ bridge.removing # <<>>
    /\ bridge_send([enum |-> "Window", variant |-> "Remove",
                    win_key |-> bridge.window_meta[Head(bridge.removing)].key])
    /\ bridge' = [bridge EXCEPT
         !.removing = Tail(@),
         !.window_meta = map_remove(@, Head(bridge.removing)),
         !.app_meta = [p \in DOMAIN @ |->
                         IF p = bridge.window_meta[Head(bridge.removing)].win.pid
                         THEN [@[p] EXCEPT !.wins = @ \ {Head(bridge.removing)}]
                         ELSE @[p]]]

\* process_tree returns Ok(())
sway_process_tree_ok ==
    /\ bridge.pc = "remove_stale_windows"
    /\ bridge.removing = <<>>
    /\ bridge' = [bridge EXCEPT !.pc = "idle",
                     !.last = [op |-> "process_tree", ok |-> TRUE]]
    /\ bridge_local

\* The workspaces sway reports: a tiled window of pid 1, a floating window of
\* pid 2, a second window of pid 1, and the first window retitled and moved.
SwayTrees ==
    {None, Some(<<>>),
     Some(<<SwayWindow(1, 1, "a", Rect_new(0, 0, 1, 1), TRUE, FALSE, None)>>),
     Some(<<SwayWindow(2, 2, "b", Rect_new(1, 0, 2, 1), TRUE, TRUE, Some(WinHintIn1)),
            SwayWindow(1, 1, "a", Rect_new(0, 0, 1, 1), TRUE, FALSE, None)>>),
     Some(<<SwayWindow(1, 1, "c", Rect_new(0, 0, 2, 1), FALSE, FALSE, Some(WinHintIn1)),
            SwayWindow(3, 1, "a", Rect_new(1, 1, 2, 2), TRUE, FALSE, None)>>)}

Sway_process_tree == \E tree \in SwayTrees : process_tree(tree)

Sway_serve == Niri_serve

SwayNext ==
    \/ Sway_process_tree
    \/ sway_remove_stale_app
    \/ sway_apps
    \/ sway_add_app_send
    \/ sway_add_app_reply
    \/ sway_windows
    \/ sway_add_window_send
    \/ sway_add_window_reply
    \/ sway_update_window
    \/ sway_stale_windows
    \/ sway_remove_stale_window
    \/ sway_process_tree_ok
    \/ Sway_serve

SpecSway == Init /\ [][SwayNext]_vars

\* The n-th command sent is a Window::Add whose application key was the reply
\* of an earlier Application::Add, with no Application::Remove of that key
\* sent in between.
WindowAddAfterAppAdd(n) ==
    \E j \in 1..(n - 1) :
        /\ sent[j].enum = "Application" /\ sent[j].variant = "Add"
        /\ j <= Len(history)
        /\ history[j].reply = Some(sent[n].app_key)
        /\ \A k \in (j + 1)..(n - 1) :
              ~(sent[k].enum = "Application" /\ sent[k].variant = "Remove"
                /\ sent[k].app_key = sent[n].app_key)

\* process_tree has returned Ok(()) and the dispatcher has taken every command
\* of the pass.
SwayPassDone ==
    /\ bridge.pc = "idle"
    /\ bridge.last.op = "process_tree"
    /\ bridge.last.ok
    /\ queue = <<>>

\* The windows of window_meta are the windows of the snapshot, each under a
\* key of its own, and the registry holds each with the snapshot's values.
SwayRegistered(snapshot) ==
    /\ DOMAIN bridge.window_meta = {snapshot[i].id : i \in DOMAIN snapshot}
    /\ \A i, j \in DOMAIN snapshot : i # j => snapshot[i].id # snapshot[j].id
    /\ \A a, b \in DOMAIN bridge.window_meta :
          a # b => bridge.window_meta[a].key # bridge.window_meta[b].key
    /\ DOMAIN pixel_manager.windows =
          {bridge.window_meta[a].key : a \in DOMAIN bridge.window_meta}
    /\ \A i \in DOMAIN snapshot :
          pixel_manager.windows[bridge.window_meta[snapshot[i].id].key].data =
              WindowData(snapshot[i].title, snapshot[i].area, snapshot[i].hint,
                         snapshot[i].visible, snapshot[i].z_index)

\* C40: in the sway bridge a Window::Add is only sent with an application key
\* that an earlier Application::Add of the bridge returned and that the bridge
\* has not removed since; after a process_tree pass that completes without
\* error the windows the bridge holds in the registry correspond one-to-one to
\* the windows of the workspace snapshot, each with the snapshot's title,
\* area, hint, visibility and z-index.
C40_SwayWindowsFollowSnapshot ==
    /\ bridge.pc # "panicked"
    /\ \A n \in DOMAIN sent :
          (sent[n].enum = "Window" /\ sent[n].variant = "Add") => WindowAddAfterAppAdd(n)
    /\ SwayPassDone => SwayRegistered(bridge.snapshot)

\* A third pass has completed: an application was removed as stale and added
\* again, a Window::Add was sent under the new registration, and the snapshot
\* of the pass holds a window.
C40_Witness ==
    /\ SwayPassDone
    /\ bridge.snapshot # <<>>
    /\ \E j, k, n \in DOMAIN sent :
          /\ j < k /\ k < n
          /\ sent[j].enum = "Application" /\ sent[j].variant = "Remove"
          /\ sent[k].enum = "Application" /\ sent[k].variant = "Add"
          /\ sent[n].enum = "Window" /\ sent[n].variant = "Add"
          /\ sent[n].app_key = sent[j].app_key


-----------------------------------------------------------------------------
\* Reference semantics the ZTree claims are stated against: a rectangle is the
\* set of unit cells <<x, y>> with x1 <= x < x2 and y1 <= y < y2.

Points(r) == {<<x, y>> : x \in r.x1..(r.x2 - 1), y \in r.y1..(r.y2 - 1)}

RECURSIVE SplitPoints(_)
SplitPoints(split) ==
    IF split = <<>> THEN {} ELSE Points(Head(split)) \cup SplitPoints(Tail(split))

\* Bounding box of a non-empty set of cells.
BBox(P) ==
    LET xs == {p[1] : p \in P}
        ys == {p[2] : p \in P}
        lo(S) == CHOOSE v \in S : \A w \in S : v <= w
        hi(S) == CHOOSE v \in S : \A w \in S : v >= w
    IN  Rect_new(lo(xs), lo(ys), hi(xs) + 1, hi(ys) + 1)

Range(f) == {f[i] : i \in DOMAIN f}

\* The cells of surface s covered by no surface of the sequence ss with a
\* strictly higher z-index.
VisiblePoints(s, ss) ==
    Points(s.area) \ UNION {Points(t.area) : t \in {u \in Range(ss) : u.z_index > s.z_index}}

DistinctZ(ss) ==
    \A i, j \in DOMAIN ss : i # j => ss[i].z_index # ss[j].z_index

\* Every leaf of a tree, as [z_index, reference, area: SplitRect].
TreeLeaves(tree) ==
    UNION {{[z_index |-> k, reference |-> tree[k][i].reference, area |-> tree[k][i].area] :
              i \in DOMAIN tree[k]} : k \in DOMAIN tree}

\* The surfaces of ss inserted one after the other into an empty tree.
RECURSIVE insert_all(_, _)
insert_all(tree, ss) ==
    IF ss = <<>> THEN tree
    ELSE insert_all(insert(tree, Head(ss)).nodes, Tail(ss))

Orders(n) == {p \in [1..n -> 1..n] : \A i, j \in 1..n : i # j => p[i] # p[j]}

\* The surface the latest ZTree::insert call was given.
LastInserted == inserted[Len(inserted)]

-----------------------------------------------------------------------------
\* C1: with pairwise distinct z-indices, the area flatten emits for a surface
\* is the bounding box of the cells of its rectangle that lie in no rectangle
\* of a strictly higher surface.
C1_FlattenIsVisibleBBox ==
    DistinctZ(inserted) =>
        \A e \in Range(flatten(nodes)) :
            LET vis == VisiblePoints(inserted[e.reference], inserted)
            IN  vis # {} /\ e.area = BBox(vis)

\* C1 witness: three layers, and a surface is emitted with a bounding box that
\* is strictly smaller than its rectangle.
C1_Witness ==
    /\ Len(inserted) = 3
    /\ DistinctZ(inserted)
    /\ \E e \in Range(flatten(nodes)) :
          /\ e.area # inserted[e.reference].area
          /\ e.area = BBox(VisiblePoints(inserted[e.reference], inserted))

\* C2: with pairwise distinct z-indices, flatten returns the same list for
\* every order in which the same surfaces are inserted into an empty tree.
C2_OrderIndependent ==
    DistinctZ(inserted) =>
        \A p \in Orders(Len(inserted)) :
            flatten(insert_all(ZTree_new, [i \in 1..Len(inserted) |-> inserted[p[i]]]))
                = flatten(nodes)

\* C2 witness: three overlapping layers inserted neither bottom-up nor top-down,
\* one of them refused, another one reduced.
C2_Witness ==
    /\ Len(inserted) = 3
    /\ DistinctZ(inserted)
    /\ inserted[1].z_index > inserted[2].z_index
    /\ inserted[3].z_index > inserted[1].z_index
    /\ \E e \in Range(flatten(nodes)) : e.area # inserted[e.reference].area
    /\ Len(flatten(nodes)) = 2

\* C6: an insert of a surface whose rectangle is covered by the union of the
\* rectangles of the surfaces held in the tree at strictly higher z-indices
\* returns false and leaves the tree unchanged.
CoveredByHigherHeld(s, tree) ==
    Points(s.area) \subseteq
        UNION {Points(inserted[l.reference].area) :
                 l \in {m \in TreeLeaves(tree) : m.z_index > s.z_index}}

C6_HiddenInsertNoChange ==
    [][(inserted' # inserted /\ CoveredByHigherHeld(inserted'[Len(inserted')], nodes))
         => (rets'[Len(rets')] = FALSE /\ nodes' = nodes)]_vars

\* C6 witness: an insert was refused by a tree holding two higher surfaces,
\* neither of which covers the newcomer alone.
C6_Witness ==
    /\ Len(inserted) = 3
    /\ rets = <<TRUE, TRUE, FALSE>>
    /\ \A i \in 1..2 :
          /\ inserted[i].z_index > inserted[3].z_index
          /\ ~(Points(inserted[3].area) \subseteq Points(inserted[i].area))

\* C7: with pairwise distinct z-indices, flatten holds exactly one entry for
\* each surface not fully covered by strictly higher inserted surfaces and no
\* entry for any other surface.
C7_OneEntryPerVisible ==
    DistinctZ(inserted) =>
        LET out == flatten(nodes)
        IN  /\ \A i \in DOMAIN out : out[i].reference \in DOMAIN inserted
            /\ \A r \in DOMAIN inserted :
                 Cardinality({i \in DOMAIN out : out[i].reference = r})
                    = IF VisiblePoints(inserted[r], inserted) # {} THEN 1 ELSE 0

\* C7 witness: a surface was inserted successfully and a later, higher insert
\* covered it completely; it has no entry any more.
C7_Witness ==
    /\ Len(inserted) = 3
    /\ DistinctZ(inserted)
    /\ rets = <<TRUE, TRUE, TRUE>>
    /\ VisiblePoints(inserted[1], inserted) = {}
    /\ \A e \in Range(flatten(nodes)) : e.reference # 1
    /\ Len(flatten(nodes)) = 2

\* The cells held by the leaf with reference ref in a tree (none when the tree
\* holds no such leaf).
LeafPoints(tree, ref) ==
    UNION {SplitPoints(l.area) : l \in {m \in TreeLeaves(tree) : m.reference = ref}}

\* The leaf the latest successful insert added: the last one of its bucket.
NewLeafOf(tree, z) == tree[z][Len(tree[z])]

\* C8 as stated: a successful insert at z masks every existing leaf with
\* z-index <= z, the bucket at z included, with the newcomer's bounding box.
C8_MasksLowerOrEqual ==
    [][(inserted' # inserted /\ rets'[Len(rets')] = TRUE) =>
         LET s  == inserted'[Len(inserted')]
             bb == expect(bounds(NewLeafOf(nodes', s.z_index).area))
         IN  \A l \in {m \in TreeLeaves(nodes) : m.z_index <= s.z_index} :
                LeafPoints(nodes', l.reference) = SplitPoints(l.area) \ Points(bb)]_vars

\* C8 amended: a successful insert at z masks every existing leaf with z-index
\* strictly below z with the newcomer's bounding box, and leaves every leaf at
\* z-index >= z, the ones of the bucket at z included, as it was.
C8_MasksStrictlyLower ==
    [][(inserted' # inserted /\ rets'[Len(rets')] = TRUE) =>
         LET s  == inserted'[Len(inserted')]
             bb == expect(bounds(NewLeafOf(nodes', s.z_index).area))
         IN  /\ \A l \in {m \in TreeLeaves(nodes) : m.z_index < s.z_index} :
                   LeafPoints(nodes', l.reference) = SplitPoints(l.area) \ Points(bb)
             /\ \A l \in {m \in TreeLeaves(nodes) : m.z_index >= s.z_index} :
                   l \in TreeLeaves(nodes')]_vars

\* C8 witness: two overlapping surfaces at one z-index are both in the tree
\* with their full rectangles, above a lower leaf that the second one reduced.
C8_Witness ==
    /\ Len(inserted) = 3
    /\ rets = <<TRUE, TRUE, TRUE>>
    /\ inserted[1].z_index < inserted[2].z_index
    /\ inserted[2].z_index = inserted[3].z_index
    /\ Points(inserted[2].area) \cap Points(inserted[3].area) # {}
    /\ LeafPoints(nodes, 2) = Points(inserted[2].area)
    /\ LeafPoints(nodes, 3) = Points(inserted[3].area)
    /\ LeafPoints(nodes, 1) # {}
    /\ LeafPoints(nodes, 1) # Points(inserted[1].area) \ Points(inserted[2].area)

\* C10: flatten emits its entries in ascending z-index of their source
\* surface, and the entries of one z-index in the order of insertion.
C10_FlattenOrder ==
    LET out == flatten(nodes)
    IN  /\ \A i \in DOMAIN out : out[i].z_index = inserted[out[i].reference].z_index
        /\ \A i, j \in DOMAIN out :
              i < j => \/ out[i].z_index < out[j].z_index
                       \/ /\ out[i].z_index = out[j].z_index
                          /\ out[i].reference < out[j].reference

\* C10 witness: three entries, two of one z-index below a third that was
\* inserted first.
C10_Witness ==
    LET out == flatten(nodes)
    IN  /\ Len(out) = 3
        /\ out[1].z_index = out[2].z_index
        /\ out[2].z_index < out[3].z_index
        /\ out[3].reference = 1

-----------------------------------------------------------------------------
\* Claims about the registry.

\* The uids of the windows of pm whose app_key is key.
WindowsOf(pm, key) == {w \in DOMAIN pm.windows : pm.windows[w].app_key = key}

\* C5: after any sequence of registry calls, successful or failing, every
\* window's app_key names a registered application, and each application's
\* windows set is exactly the set of uids of the windows carrying its key.
C5_RegistryConsistent ==
    /\ \A w \in DOMAIN pixel_manager.windows :
          pixel_manager.windows[w].app_key \in DOMAIN pixel_manager.applications
    /\ \A k \in DOMAIN pixel_manager.applications :
          pixel_manager.applications[k].windows = WindowsOf(pixel_manager, k)

\* An application was just removed together with its window while another
\* application still owns a window.
C5_Witness ==
    /\ last_call.op = "app_remove"
    /\ last_call.args[1] \notin DOMAIN pixel_manager.applications
    /\ next_uid = MaxPMWindows
    /\ Cardinality(DOMAIN pixel_manager.windows) = 1
    /\ \E k \in DOMAIN pixel_manager.applications :
          pixel_manager.applications[k].windows # {}

-----------------------------------------------------------------------------
\* Claims about compute_hints.

\* The pixels of the screen; pixel <<x, y>> is the unit square at (x, y).
ScreenPixels == {<<x, y>> : x \in 0..(ScreenW - 1), y \in 0..(ScreenH - 1)}
InRect(px, r) == r.x1 <= px[1] /\ px[1] < r.x2 /\ r.y1 <= px[2] /\ px[2] < r.y2

\* The hint a pixel ends with when the entries are applied in list order,
\* a later entry overwriting an earlier one.
RECURSIVE PaintFrom(_, _, _)
PaintFrom(rect_hints, px, cur) ==
    IF rect_hints = <<>> THEN cur
    ELSE PaintFrom(Tail(rect_hints), px,
                   IF InRect(px, Head(rect_hints).rect) THEN Head(rect_hints).hint
                   ELSE cur)
Paint(computed, px) == PaintFrom(computed.rect_hints, px, expect(computed.default_hint))

VisibleWindows(pm) == {w \in DOMAIN pm.windows : pm.windows[w].data.visible}
Covering(pm, px) == {w \in VisibleWindows(pm) : InRect(px, pm.windows[w].data.area)}

\* The hint of the highest visible window covering the pixel, resolved through
\* the window, its application and the global default.
ExpectedHint(pm, px) ==
    IF Covering(pm, px) = {} THEN pm.default_hint
    ELSE LET top == CHOOSE w \in Covering(pm, px) :
                       \A v \in Covering(pm, px) :
                          pm.windows[v].data.z_index <= pm.windows[w].data.z_index
             own == pm.windows[top].data.hint
             dfl == pm.applications[pm.windows[top].app_key].default_hint
         IN  IF own # None THEN own[1]
             ELSE IF dfl # None THEN dfl[1] ELSE pm.default_hint

Overlap(r1, r2) ==
    /\ Max(r1.x1, r2.x1) < Min(r1.x2, r2.x2)
    /\ Max(r1.y1, r2.y1) < Min(r1.y2, r2.y2)

NoOverlapAtSameZ(pm) ==
    \A v, w \in VisibleWindows(pm) :
        (v # w /\ Overlap(pm.windows[v].data.area, pm.windows[w].data.area))
            => pm.windows[v].data.z_index # pm.windows[w].data.z_index

\* C3: when no two overlapping visible windows share a z-index, painting the
\* rect_hints of compute_hints in list order over the global default gives
\* every screen pixel the fallback-resolved hint of the highest visible window
\* covering it, and the global default where no visible window covers it;
\* whatever the order in which the windows are iterated.
C3_PaintIsTopWindowHint ==
    NoOverlapAtSameZ(pixel_manager) =>
        \A o \in IterOrders(pixel_manager.windows) :
            LET computed == compute_hints(pixel_manager, o)
            IN  /\ computed.ok
                /\ \A px \in ScreenPixels :
                      Paint(computed.val, px) = ExpectedHint(pixel_manager, px)

\* Three visible windows are stacked over one pixel at three z-indexes and
\* each shows somewhere, the one without a hint of its own through the
\* application's hint.
C3_Witness ==
    /\ NoOverlapAtSameZ(pixel_manager)
    /\ Cardinality(VisibleWindows(pixel_manager)) = 3
    /\ \E px \in ScreenPixels : Cardinality(Covering(pixel_manager, px)) = 3
    /\ {ExpectedHint(pixel_manager, px) : px \in ScreenPixels}
          = {AppHintIn, WinHintIn1, WinHintIn2}

\* The part of a window's area that is on the screen, as a set of pixels.
OnScreen(pm, w) == {px \in ScreenPixels : InRect(px, pm.windows[w].data.area)}

RectHintsOverlap(computed) ==
    \E i, j \in DOMAIN computed.rect_hints :
        i < j /\ Overlap(computed.rect_hints[i].rect, computed.rect_hints[j].rect)

Within(r, outer) ==
    outer.x1 <= r.x1 /\ r.x2 <= outer.x2 /\ outer.y1 <= r.y1 /\ r.y2 <= outer.y2

\* C9 as stated: the rectangles of rect_hints are pairwise non-overlapping,
\* for every registry state.
C9_PairwiseNonOverlapping ==
    \A o \in IterOrders(pixel_manager.windows) :
        ~RectHintsOverlap(compute_hints(pixel_manager, o).val)

\* C9 amended: every rectangle of rect_hints is a non-empty rectangle inside
\* the on-screen area of the window it comes from, so two rectangles overlap
\* only where their windows overlap on the screen; the list is pairwise
\* non-overlapping whenever no two visible windows overlap on the screen.
C9_RectsWithinWindows ==
    \A o \in IterOrders(pixel_manager.windows) :
        LET computed == compute_hints(pixel_manager, o)
            surfaces == compute_surfaces(pixel_manager, o)
        IN  /\ computed.ok
            /\ Len(computed.val.rect_hints) = Len(surfaces)
            /\ \A i \in DOMAIN surfaces :
                  LET r == computed.val.rect_hints[i].rect
                  IN  /\ r = surfaces[i].area
                      /\ r.x1 < r.x2 /\ r.y1 < r.y2
                      /\ Within(r, pixel_manager.windows[surfaces[i].reference].data.area)
                      /\ Within(r, Rect_new(0, 0, ScreenW, ScreenH))
            /\ (\A v, w \in VisibleWindows(pixel_manager) :
                    v # w => OnScreen(pixel_manager, v) \cap OnScreen(pixel_manager, w) = {})
                => ~RectHintsOverlap(computed.val)

\* A window that overflows the screen is partly hidden by a higher one, and
\* the rectangles of the two overlap.
C9_Witness ==
    /\ \E w \in VisibleWindows(pixel_manager) :
          LET a == pixel_manager.windows[w].data.area
          IN  a.x1 < 0 /\ OnScreen(pixel_manager, w) # {}
    /\ \E o \in IterOrders(pixel_manager.windows) :
          RectHintsOverlap(compute_hints(pixel_manager, o).val)

-----------------------------------------------------------------------------
\* Claims about the dispatcher.

\* The commands that can change which hint a pixel gets.
CoverageCommand(cmd) ==
    \/ cmd.enum = "Window"
    \/ cmd.enum = "Application" /\ cmd.variant = "Remove"
    \/ cmd.enum = "Property" /\ cmd.variant = "SetDefaultHint"

\* C4: whenever the dispatcher has applied a coverage-affecting mutation
\* (WindowAdd, WindowUpdate, WindowRemove, AppRemove, SetDefaultHint), it has
\* computed the hints of the resulting registry and handed them to the driver
\* sink before it takes the next command.
C4_UploadAfterMutation ==
    (/\ last_dispatch.op = "dispatch"
     /\ CoverageCommand(last_dispatch.cmd)
     /\ last_dispatch.mutated)
        => /\ last_dispatch.upload # None
           /\ \E o \in IterOrders(pixel_manager.windows) :
                 last_dispatch.upload[1] = compute_hints(pixel_manager, o).val

\* A WindowAdd whose requester had dropped the reply receiver was dispatched:
\* the window is in the registry and nothing was handed to the driver sink.
C4_Witness ==
    /\ last_dispatch.op = "dispatch"
    /\ last_dispatch.cmd.enum = "Window" /\ last_dispatch.cmd.variant = "Add"
    /\ last_dispatch.cmd.reply = "closed"
    /\ next_uid \in DOMAIN pixel_manager.windows
    /\ pixel_manager.windows[next_uid].data.visible
    /\ last_dispatch.upload = None

-----------------------------------------------------------------------------
\* Claims about compute_hints, continued.

\* compute_hints under every iteration order of the window map.
AllComputed(pm) == [o \in IterOrders(pm.windows) |-> compute_hints(pm, o)]

NoOverlapAtSameZAll(pm) ==
    \A v, w \in DOMAIN pm.windows :
        (v # w /\ Overlap(pm.windows[v].data.area, pm.windows[w].data.area))
            => pm.windows[v].data.z_index # pm.windows[w].data.z_index

\* The number of positions of the list that hold e.
Count(list, e) == Cardinality({i \in DOMAIN list : list[i] = e})
SameEntries(l1, l2) ==
    /\ Len(l1) = Len(l2)
    /\ \A i \in DOMAIN l1 : Count(l1, l1[i]) = Count(l2, l1[i])

\* The visible windows with a part on the screen.
ShownWindows(pm) == {w \in VisibleWindows(pm) : OnScreen(pm, w) # {}}
DistinctZShown(pm) ==
    \A v, w \in ShownWindows(pm) :
        v # w => pm.windows[v].data.z_index # pm.windows[w].data.z_index

\* One iteration order, against which the others are compared.
SomeOrder(pm) == CHOOSE o \in IterOrders(pm.windows) : TRUE

\* Two results with the same default_hint and the same entries, each as many
\* times, and equal when the shown windows all have different z-indexes.
SameUpToTies(pm, c1, c2) ==
    /\ c1.ok /\ c2.ok
    /\ c1.val.default_hint = c2.val.default_hint
    /\ SameEntries(c1.val.rect_hints, c2.val.rect_hints)
    /\ DistinctZShown(pm) => c1 = c2

\* C11 as stated: provided no two overlapping windows share a z-index, the
\* output of compute_hints is the same under every iteration order of the
\* window map.
C11_SameOutputEveryOrder ==
    NoOverlapAtSameZAll(pixel_manager) =>
        \A o1, o2 \in IterOrders(pixel_manager.windows) :
            AllComputed(pixel_manager)[o1] = AllComputed(pixel_manager)[o2]

\* C11 amended: provided no two overlapping visible windows share a z-index,
\* every iteration order gives the same default_hint and the same entries,
\* each as many times, as one fixed order does, and hence as every other; the
\* lists are equal when the windows shown on the screen all have different
\* z-indexes, and otherwise can differ in the relative order of the entries of
\* windows that share a z-index.
C11_SameEntriesEveryOrder ==
    NoOverlapAtSameZ(pixel_manager) =>
        \A o \in IterOrders(pixel_manager.windows) :
            SameUpToTies(pixel_manager,
                         compute_hints(pixel_manager, SomeOrder(pixel_manager)),
                         compute_hints(pixel_manager, o))

\* Two windows side by side at one z-index and a third one above them: two
\* iteration orders give the same entries in different list orders.
C11_Witness ==
    /\ NoOverlapAtSameZAll(pixel_manager)
    /\ Cardinality(ShownWindows(pixel_manager)) = 3
    /\ ~DistinctZShown(pixel_manager)
    /\ \E o1, o2 \in IterOrders(pixel_manager.windows) :
          /\ AllComputed(pixel_manager)[o1] # AllComputed(pixel_manager)[o2]
          /\ Len(AllComputed(pixel_manager)[o1].val.rect_hints) = 3

\* C12: compute_hints never emits more rect_hints than there are windows that
\* are visible and whose area has a non-empty intersection with the screen.
C12_AtMostShownWindows ==
    \A o \in IterOrders(pixel_manager.windows) :
        Len(compute_hints(pixel_manager, o).val.rect_hints)
            <= Cardinality(ShownWindows(pixel_manager))

\* Two windows are shown, one of them completely under the other, and a
\* third one is off the screen or hidden: fewer entries than shown windows.
C12_Witness ==
    /\ Cardinality(ShownWindows(pixel_manager)) = 2
    /\ Cardinality(DOMAIN pixel_manager.windows) = 3
    /\ \E o \in IterOrders(pixel_manager.windows) :
          Len(compute_hints(pixel_manager, o).val.rect_hints) = 1

\* No higher or equal visible window shares a screen pixel with w.
Unoccluded(pm, w) ==
    \A v \in VisibleWindows(pm) \ {w} :
        pm.windows[v].data.z_index >= pm.windows[w].data.z_index
            => OnScreen(pm, v) \cap OnScreen(pm, w) = {}

\* C13: every rectangle compute_hints emits is a non-empty rectangle inside
\* screen_area, and a window that reaches past the screen edge, with nothing
\* above it, is emitted as its area cut at the screen edges.
C13_RectsClippedToScreen ==
    \A o \in IterOrders(pixel_manager.windows) :
        LET surfaces == compute_surfaces(pixel_manager, o)
            rect_hints == compute_hints(pixel_manager, o).val.rect_hints
        IN  \A i \in DOMAIN rect_hints :
                LET r == rect_hints[i].rect
                    a == pixel_manager.windows[surfaces[i].reference].data.area
                IN  /\ r.x1 < r.x2 /\ r.y1 < r.y2
                    /\ 0 <= r.x1 /\ r.x2 <= ScreenW /\ 0 <= r.y1 /\ r.y2 <= ScreenH
                    /\ Unoccluded(pixel_manager, surfaces[i].reference) =>
                          r = [x1 |-> Max(a.x1, 0), y1 |-> Max(a.y1, 0),
                               x2 |-> Min(a.x2, ScreenW), y2 |-> Min(a.y2, ScreenH)]

\* A window reaching past the left, right and bottom edges is emitted next to
\* one reaching past the top and right edges.
C13_Witness ==
    /\ \E v, w \in ShownWindows(pixel_manager) :
          /\ pixel_manager.windows[v].data.area.x1 < 0
          /\ pixel_manager.windows[v].data.area.y2 > ScreenH
          /\ pixel_manager.windows[w].data.area.y1 < 0
          /\ pixel_manager.windows[w].data.area.x2 > ScreenW
          /\ Unoccluded(pixel_manager, v)
    /\ \E o \in IterOrders(pixel_manager.windows) :
          Len(compute_hints(pixel_manager, o).val.rect_hints) >= 2

\* The effective hint of a window: its own, else its application's, else the
\* global default.
EffectiveHint(pm, w) ==
    LET own == pm.windows[w].data.hint
        dfl == pm.applications[pm.windows[w].app_key].default_hint
    IN  IF own # <<>> THEN own[1] ELSE IF dfl # <<>> THEN dfl[1] ELSE pm.default_hint

\* C15: the hint of every rect_hint compute_hints emits is the effective hint
\* of its source window.
C15_EntryHasEffectiveHint ==
    \A o \in IterOrders(pixel_manager.windows) :
        LET surfaces == compute_surfaces(pixel_manager, o)
            computed == compute_hints(pixel_manager, o)
        IN  /\ computed.ok
            /\ Len(computed.val.rect_hints) = Len(surfaces)
            /\ \A i \in DOMAIN surfaces :
                  computed.val.rect_hints[i].hint
                      = EffectiveHint(pixel_manager, surfaces[i].reference)

\* Three entries are emitted: one with the window's own hint and one with the
\* application's hint, both different from the global default.
C15_Witness ==
    /\ HAppKey \in DOMAIN pixel_manager.applications
    /\ pixel_manager.applications[HAppKey].default_hint = Some(AppHintIn)
    /\ \E o \in IterOrders(pixel_manager.windows) :
          LET rect_hints == compute_hints(pixel_manager, o).val.rect_hints
          IN  /\ Len(rect_hints) = 3
              /\ {rect_hints[i].hint : i \in DOMAIN rect_hints}
                    = {AppHintIn, WinHintIn1, WinHintIn2}

-----------------------------------------------------------------------------
\* Claims about the dispatcher, continued.

\* The step takes a command out of the channel and dispatches it.
ServeStep == Len(queue') < Len(queue)

\* compute_hints gives default_hint and, with no visible window, no rect_hints.
DefaultAndEmpty(pm, default_hint) ==
    \A o \in IterOrders(pm.windows) :
        /\ compute_hints(pm, o).ok
        /\ compute_hints(pm, o).val.default_hint = Some(default_hint)
        /\ VisibleWindows(pm) = {} => compute_hints(pm, o).val.rect_hints = <<>>

\* The global default after the step: the hint of the SetDefaultHint the step
\* dispatched, else the one before the step.
LatestDefault ==
    IF /\ ServeStep
       /\ Head(queue).enum = "Property"
       /\ Head(queue).variant = "SetDefaultHint"
    THEN Head(queue).hint
    ELSE pixel_manager.default_hint

\* C14: compute_hints always returns the current global default as
\* default_hint, which is the hint of the latest SetDefaultHint, or the initial
\* default when there was none, and returns no rect_hints whenever no window
\* is visible.
C14_DefaultHintIsLatest ==
    /\ DefaultAndEmpty(pixel_manager, DefaultHintIn)
    /\ [][DefaultAndEmpty(pixel_manager', LatestDefault)]_vars

\* A second SetDefaultHint with another hint was dispatched while the registry
\* holds a window that is not visible: the default is the second hint and
\* there are no rect_hints.
C14_Witness ==
    /\ last_dispatch.op = "dispatch"
    /\ last_dispatch.cmd.enum = "Property"
    /\ last_dispatch.cmd.variant = "SetDefaultHint"
    /\ driver_hints # None
    /\ driver_hints[1].default_hint \notin
          {Some(DefaultHintIn), Some(last_dispatch.cmd.hint)}
    /\ pixel_manager.default_hint = last_dispatch.cmd.hint
    /\ pixel_manager.windows # <<>>
    /\ VisibleWindows(pixel_manager) = {}
    /\ last_dispatch.upload # None
    /\ last_dispatch.upload[1].rect_hints = <<>>

\* The command carries a reply channel.
HasReply(cmd) == "reply" \in DOMAIN cmd

\* C16: every dispatched command that carries a reply channel whose receiver
\* the requester still holds has had a value, a result or an error, sent on
\* that channel: the sender is never dropped without a value.
C16_ReplyAlwaysSent ==
    (/\ last_dispatch.op = "dispatch"
     /\ HasReply(last_dispatch.cmd)
     /\ last_dispatch.cmd.reply = "open")
        => last_dispatch.reply # None

\* A WindowAdd naming an application the registry does not hold was dispatched
\* while its requester was waiting: window_add failed with UnknownApp, nothing
\* was sent on the reply channel and the registry holds no window.
C16_Witness ==
    /\ last_dispatch.op = "dispatch"
    /\ last_dispatch.cmd.enum = "Window" /\ last_dispatch.cmd.variant = "Add"
    /\ last_dispatch.cmd.reply = "open"
    /\ last_dispatch.cmd.app_key \notin DOMAIN pixel_manager.applications
    /\ ~last_dispatch.res.ok
    /\ last_dispatch.reply = None
    /\ pixel_manager.windows = <<>>

\* The i-th dispatch found the requester's reply receiver dropped.
ReplyClosedAt(i) ==
    /\ HasReply(history[i].cmd)
    /\ history[i].cmd.reply = "closed"
    /\ history[i].res = Err("Failed to send response")

\* The registry the i-th dispatch started from, and the uid Window::new drew.
PmBefore(i) ==
    IF i = 1 THEN PixelManager_new(DefaultHintIn, SCREEN_RECT) ELSE history[i - 1].pm
UidAt(i) ==
    1 + Cardinality({j \in 1..(i - 1) :
            history[j].cmd.enum = "Window" /\ history[j].cmd.variant = "Add"})

\* The i-th entry of history is what dispatching its command on the registry
\* left by the entry before it gives.
DispatchedFromPrevious(i) ==
    \E perm \in UidPerms, sink_ok \in BOOLEAN :
        HistoryEntry([cmd |-> history[i].cmd, reply |-> history[i].reply,
                      upload |-> history[i].upload, res |-> history[i].res],
                     history[i].pm)
          = LET d == dispatch(PmBefore(i), UidAt(i), history[i].cmd, perm, sink_ok)
            IN  HistoryEntry([cmd |-> history[i].cmd, reply |-> d.reply,
                              upload |-> d.upload, res |-> d.res], d.pm)

\* C17: a dispatch that finds the reply channel closed by the requester ends
\* with the Err that serve logs and nothing sent, and the serve loop goes on:
\* no command is lost, and every command taken from the channel after that
\* failure is the next one enqueued and is dispatched as any other, on the
\* registry the one before it left.
C17_ServeGoesOnAfterClosedReply ==
    /\ Len(history) + Len(queue) = Len(sent)
    /\ \A i \in DOMAIN history :
          (HasReply(history[i].cmd) /\ history[i].cmd.reply = "closed")
              => /\ ~history[i].res.ok
                 /\ history[i].reply = None
                 /\ \A j \in (i + 1)..Len(history) :
                       history[j].cmd = sent[j] /\ DispatchedFromPrevious(j)

\* After a dispatch that found its reply channel closed, a later command was
\* dispatched with success and its hints went to the driver sink.
C17_Witness ==
    \E i, j \in DOMAIN history :
        /\ i < j
        /\ ReplyClosedAt(i)
        /\ history[j].res.ok
        /\ history[j].upload # None
        /\ driver_hints = history[j].upload

\* The driver sink rejected the upload of the i-th dispatch.
RejectedAt(i) == history[i].upload # None /\ ~history[i].res.ok
\* The driver sink accepted the upload of the i-th dispatch.
AcceptedAt(i) == history[i].upload # None /\ history[i].res.ok

\* The registry the i-th dispatch leaves when the sink accepts its upload.
PmIfAccepted(i) ==
    {dispatch(PmBefore(i), UidAt(i), history[i].cmd, perm, TRUE).pm : perm \in UidPerms}

\* The accepted uploads, oldest first.
RECURSIVE AcceptedUploads(_)
AcceptedUploads(n) ==
    IF n = 0 THEN <<>>
    ELSE AcceptedUploads(n - 1) \o (IF AcceptedAt(n) THEN <<history[n].upload>> ELSE <<>>)

\* C18: when the driver sink rejects an upload, the registry keeps the
\* mutation of that command (it is the registry the same dispatch leaves when
\* the sink accepts) and the driver keeps what it had; every upload the sink
\* accepts afterwards is compute_hints of the whole registry as it is then,
\* and it is what the driver holds.
C18_RejectedUploadKeepsMutation ==
    /\ \A i \in DOMAIN history :
          /\ RejectedAt(i) => history[i].pm \in PmIfAccepted(i)
          /\ AcceptedAt(i) =>
                \E o \in IterOrders(history[i].pm.windows) :
                    history[i].upload[1] = compute_hints(history[i].pm, o).val
    /\ driver_hints = IF AcceptedUploads(Len(history)) = <<>> THEN None
                      ELSE AcceptedUploads(Len(history))[Len(AcceptedUploads(Len(history)))]

\* The sink rejected the upload after a WindowAdd, the window stayed in the
\* registry, and the next accepted upload, after another command, has the
\* window's rectangle.
C18_Witness ==
    \E i, j \in DOMAIN history :
        /\ i < j
        /\ RejectedAt(i)
        /\ history[i].cmd.enum = "Window" /\ history[i].cmd.variant = "Add"
        /\ history[i].pm # PmBefore(i)
        /\ \A k \in (i + 1)..(j - 1) : ~AcceptedAt(k)
        /\ AcceptedAt(j)
        /\ history[j].cmd.enum = "Property"
        /\ history[j].upload[1].rect_hints # <<>>
        /\ driver_hints = history[j].upload

\* C19: the commands are dispatched in the order they were enqueued, one at a
\* time, each on the registry the one before it left; the uploads reach the
\* sink in that order too, each computed from the registry right after the
\* mutation of its own command.
C19_DispatchInEnqueueOrder ==
    /\ [i \in DOMAIN history |-> history[i].cmd] \o queue = sent
    /\ \A i \in DOMAIN history :
          /\ DispatchedFromPrevious(i)
          /\ history[i].upload # None =>
                \E perm \in UidPerms :
                    Ok(history[i].upload[1])
                        = compute_hints(history[i].pm,
                                        values_order(history[i].pm.windows, perm))

\* Two commands were waiting in the channel together and four were dispatched,
\* three of them with an upload, each upload different from the one before.
C19_Witness ==
    /\ Len(history) = MaxSent
    /\ \E i, j, k \in DOMAIN history :
          /\ i < j /\ j < k
          /\ history[i].upload # None
          /\ history[j].upload # None
          /\ history[k].upload # None
          /\ history[i].upload # history[j].upload
          /\ history[j].upload # history[k].upload
    /\ sent[1] # sent[2]
    /\ history[1].pm = history[2].pm => history[2].pm # history[3].pm

-----------------------------------------------------------------------------
\* Claims about the registry, continued.

\* The step is a call of window_add.
WindowAddStep == next_uid' = next_uid + 1 /\ last_call'.op = "window_add"

\* What window_add(w) must have done to the registry, and returned.
WindowAddEffect(before, after, w, res) ==
    IF w.app_key \notin DOMAIN before.applications
    THEN /\ res = Err(UnknownApp(w.app_key))
         /\ after = before
    ELSE /\ res = Ok(w.uid)
         /\ DOMAIN after.windows = DOMAIN before.windows \cup {w.uid}
         /\ after.windows[w.uid] = w
         /\ \A u \in DOMAIN before.windows : after.windows[u] = before.windows[u]
         /\ DOMAIN after.applications = DOMAIN before.applications
         /\ after.applications[w.app_key].windows
               = before.applications[w.app_key].windows \cup {w.uid}
         /\ \A k \in DOMAIN before.applications \ {w.app_key} :
               after.applications[k] = before.applications[k]
         /\ after.default_hint = before.default_hint
         /\ after.screen_area = before.screen_area

\* C20: window_add of a window whose app_key names no registered application
\* fails with UnknownApp carrying that key and leaves the registry as it was;
\* otherwise it returns the uid, stores the window under it and adds the uid
\* to the window set of its application only.
C20_WindowAddEffect ==
    [][WindowAddStep =>
          WindowAddEffect(pixel_manager, pixel_manager', last_call'.args[1],
                          last_call'.res)]_vars

\* window_add just failed for an application that was registered and removed
\* again, while another application and its window are in the registry.
C20_Witness ==
    /\ last_call.op = "window_add"
    /\ last_call.res = Err(UnknownApp(last_call.args[1].app_key))
    /\ last_call.args[1].app_key # ":0"
    /\ last_call.args[1].uid \notin DOMAIN pixel_manager.windows
    /\ pixel_manager.windows # <<>>
    /\ pixel_manager.applications # <<>>

\* What window_update(win_key, data) must have done to the registry, and
\* returned.
WindowUpdateEffect(before, after, win_key, data, res) ==
    IF win_key \notin DOMAIN before.windows
    THEN /\ res = Err(UnknownWindow(win_key))
         /\ after = before
    ELSE /\ res = Ok(Unit)
         /\ DOMAIN after.windows = DOMAIN before.windows
         /\ after.windows[win_key].data = data
         /\ after.windows[win_key].uid = before.windows[win_key].uid
         /\ after.windows[win_key].app_key = before.windows[win_key].app_key
         /\ \A u \in DOMAIN before.windows \ {win_key} :
               after.windows[u] = before.windows[u]
         /\ after.applications = before.applications
         /\ after.default_hint = before.default_hint
         /\ after.screen_area = before.screen_area

\* C21: window_update with an unknown window key fails with UnknownWindow and
\* leaves the registry as it was; with a known key it replaces title, area,
\* hint, visible flag and z-index of the window by the given data in one step
\* and leaves its uid, its app_key, every application and every other window
\* as they were.
C21_WindowUpdateEffect ==
    [][last_call'.op = "window_update" =>
          WindowUpdateEffect(pixel_manager, pixel_manager', last_call'.args[1],
                             last_call'.args[2], last_call'.res)]_vars

\* window_update just gave a window of an application with two windows new
\* data, hiding it.
C21_Witness ==
    /\ last_call.op = "window_update"
    /\ last_call.res = Ok(Unit)
    /\ ~last_call.args[2].visible
    /\ Cardinality(DOMAIN pixel_manager.windows) = 2
    /\ pixel_manager.windows[last_call.args[1]].data = last_call.args[2]
    /\ \E u \in DOMAIN pixel_manager.windows :
          pixel_manager.windows[u].data # last_call.args[2]

\* What app_remove(app_key) must have done to the registry.
AppRemoveEffect(before, after, app_key) ==
    IF app_key \notin DOMAIN before.applications
    THEN after = before
    ELSE /\ DOMAIN after.applications = DOMAIN before.applications \ {app_key}
         /\ \A k \in DOMAIN after.applications :
               after.applications[k] = before.applications[k]
         /\ DOMAIN after.windows =
               {u \in DOMAIN before.windows : before.windows[u].app_key # app_key}
         /\ \A u \in DOMAIN after.windows : after.windows[u] = before.windows[u]
         /\ after.default_hint = before.default_hint
         /\ after.screen_area = before.screen_area

\* C22: app_remove(key) removes the application and every window whose
\* app_key is key, leaves every other application and window as they were,
\* and changes nothing when key names no application.
C22_AppRemoveEffect ==
    [][last_call'.op = "app_remove" =>
          AppRemoveEffect(pixel_manager, pixel_manager', last_call'.args[1])]_vars

\* app_remove just removed an application together with its window, and the
\* other application still has its window.
C22_Witness ==
    /\ last_call.op = "app_remove"
    /\ next_uid = 2
    /\ last_call.args[1] \notin DOMAIN pixel_manager.applications
    /\ Cardinality(DOMAIN pixel_manager.applications) = 1
    /\ Cardinality(DOMAIN pixel_manager.windows) = 1
    /\ \A u \in DOMAIN pixel_manager.windows :
          pixel_manager.windows[u].app_key \in DOMAIN pixel_manager.applications

\* C23: app_add is idempotent: adding an application whose key is already
\* registered returns that key and leaves the registry, with the registered
\* application's default hint and window set, as it was; adding one whose key
\* is new returns its key and registers it beside the others.
C23_AppAddIdempotent ==
    [][last_call'.op = "app_add" =>
          LET a == last_call'.args[1]
              key == Application_key(a)
          IN  /\ last_call'.res = key
              /\ IF key \in DOMAIN pixel_manager.applications
                 THEN pixel_manager' = pixel_manager
                 ELSE /\ pixel_manager'.applications
                            = map_insert(pixel_manager.applications, key, a)
                      /\ pixel_manager'.windows = pixel_manager.windows]_vars

\* app_add was just called with an application whose key is registered with
\* another default hint and a window: the registered one is still there.
C23_Witness ==
    /\ last_call.op = "app_add"
    /\ last_call.res \in DOMAIN pixel_manager.applications
    /\ pixel_manager.applications[last_call.res].default_hint
          # last_call.args[1].default_hint
    /\ pixel_manager.applications[last_call.res].windows # {}

\* What window_remove(win_uid) must have done to the registry.
WindowRemoveEffect(before, after, win_uid) ==
    IF win_uid \notin DOMAIN before.windows
    THEN after = before
    ELSE LET app_key == before.windows[win_uid].app_key
         IN  /\ DOMAIN after.windows = DOMAIN before.windows \ {win_uid}
             /\ \A u \in DOMAIN after.windows : after.windows[u] = before.windows[u]
             /\ DOMAIN after.applications = DOMAIN before.applications
             /\ win_uid \notin after.applications[app_key].windows
             /\ after.applications[app_key]
                   = [before.applications[app_key] EXCEPT !.windows = @ \ {win_uid}]
             /\ \A k \in DOMAIN before.applications \ {app_key} :
                   after.applications[k] = before.applications[k]
             /\ after.default_hint = before.default_hint
             /\ after.screen_area = before.screen_area

\* C24: window_remove is idempotent: removing a known window deletes it and
\* takes its uid out of its application's window set, and removing an unknown
\* or already removed key changes nothing in the registry.
C24_WindowRemoveIdempotent ==
    [][last_call'.op = "window_remove" =>
          /\ WindowRemoveEffect(pixel_manager, pixel_manager', last_call'.args[1])
          /\ window_remove(pixel_manager', last_call'.args[1]) = pixel_manager']_vars

\* window_remove was just called for a uid that was handed out and is not in
\* the registry, while its application still holds another window.
C24_Witness ==
    /\ last_call.op = "window_remove"
    /\ last_call.args[1] <= next_uid
    /\ last_call.args[1] \notin DOMAIN pixel_manager.windows
    /\ \E k \in DOMAIN pixel_manager.applications :
          /\ pixel_manager.applications[k].windows # {}
          /\ last_call.args[1] \notin pixel_manager.applications[k].windows

-----------------------------------------------------------------------------
\* Claims about the dispatcher, property queries and window updates.

\* The step dispatches a property query.
PropertyQueryStep ==
    /\ ServeStep
    /\ Head(queue).enum = "Property"
    /\ Head(queue).variant = "DefaultHint"

WindowUpdateStep ==
    /\ ServeStep
    /\ Head(queue).enum = "Window"
    /\ Head(queue).variant = "Update"

\* The value of a field after an update: the one carried, else the old one.
Carried(field, old) == IF field = <<>> THEN old ELSE field[1]

\* What dispatching the update on window win_key must have done.
PartialUpdateEffect(before, after, win_key, update) ==
    IF win_key \notin DOMAIN before.windows
    THEN after = before
    ELSE LET old == before.windows[win_key].data
         IN  /\ after = [before EXCEPT !.windows[win_key].data =
                   [title |-> Carried(update.title, old.title),
                    area |-> Carried(update.area, old.area),
                    hint |-> Carried(update.hint, old.hint),
                    visible |-> Carried(update.visible, old.visible),
                    z_index |-> Carried(update.z_index, old.z_index)]]
             /\ update.hint = <<<<>>>> =>
                   /\ after.windows[win_key].data.hint = <<>>
                   /\ window_hint_fallback(after, win_key) = Ok(after.default_hint)

\* C26: a WindowUpdate command changes exactly the fields it carries: every
\* field it leaves absent keeps the window's value, and a carried hint field
\* that holds no hint clears the window's own hint, so that the window falls
\* back to its application's hint or the global default (the dispatcher's
\* applications have no hint of their own).
C26_UpdateChangesCarriedFields ==
    [][WindowUpdateStep =>
          PartialUpdateEffect(pixel_manager, pixel_manager', Head(queue).win_key,
                              Head(queue).update)]_vars

\* An update carrying only a hint field that holds no hint was dispatched on a
\* window that keeps a title, an area, a z-index and a visible flag given by
\* earlier updates, beside a second window.
C26_Witness ==
    /\ last_dispatch.op = "dispatch"
    /\ last_dispatch.cmd.enum = "Window" /\ last_dispatch.cmd.variant = "Update"
    /\ last_dispatch.cmd.update = [NoUpdate EXCEPT !.hint = Some(None)]
    /\ last_dispatch.res.ok
    /\ Cardinality(DOMAIN pixel_manager.windows) = 2
    /\ pixel_manager.windows[1].data =
          [title |-> "t", area |-> Rect_new(0, 1, 2, ScreenH), hint |-> None,
           visible |-> FALSE, z_index |-> 2]
    /\ pixel_manager.default_hint = AppHintIn

-----------------------------------------------------------------------------
\* Claims about the IPC boundary.

\* The area breaks one of x1 <= x2, y1 <= y2, x1 >= 0, y1 >= 0.
BadArea(a) == ~(a.x1 <= a.x2 /\ a.y1 <= a.y2 /\ a.x1 >= 0 /\ a.y1 >= 0)

\* The hint string is not empty and is not one of Y1, Y2, Y4 together with
\* T, D, R, r in any number and order.
BadHint(str) ==
    /\ str # <<"">>
    /\ \/ \E i \in DOMAIN str : str[i] \notin {"Y1", "Y2", "Y4", "T", "D", "R", "r"}
       \/ \A i \in DOMAIN str : str[i] \notin {"Y1", "Y2", "Y4"}

\* The arguments of the call are ones the boundary must refuse.
BadArgs(call) ==
    IF call.op \in {"window_add", "window_update"}
    THEN BadArea(call.args[2].area) \/ BadHint(call.args[2].hint)
    ELSE call.op = "window_update_area" /\ BadArea(call.args[2])

\* C27: a window add, window update or area update whose area breaks
\* x1 <= x2, y1 <= y2, x1 >= 0 or y1 >= 0, or whose hint string does not
\* parse, returns InvalidArgs, enqueues no command and leaves the registry as
\* it was; with good arguments the method enqueues one command.
C27_BadArgsRejected ==
    [][(~ServeStep /\ last_ipc'.op \in {"window_add", "window_update",
                                        "window_update_area"}) =>
          IF BadArgs(last_ipc')
          THEN /\ ~last_ipc'.res.ok
               /\ last_ipc'.res.err.kind = "InvalidArgs"
               /\ queue' = queue
               /\ pixel_manager' = pixel_manager
          ELSE /\ last_ipc'.res.ok
               /\ Len(queue') = Len(queue) + 1]_vars

\* window_update was just refused for an area with y1 > y2 and a good hint
\* while the window it names is in the registry and the channel is empty.
C27_Witness ==
    /\ last_ipc.op = "window_update"
    /\ last_ipc.args[2].area.y1 > last_ipc.args[2].area.y2
    /\ last_ipc.args[2].hint = <<"Y2", "D", "R">>
    /\ last_ipc.res = Err(InvalidArgs("Bad Rectangle"))
    /\ last_ipc.args[1] \in DOMAIN pixel_manager.windows
    /\ queue = <<>>

-----------------------------------------------------------------------------
\* Claims about the channel.

\* C28: serve leaves its loop only after every Sender is dropped and every
\* enqueued command is dispatched, whatever the commands were and whatever
\* their dispatch returned; and once every Sender is dropped, serve dispatches
\* the commands still waiting and then returns.
C28_ServeEndsWhenChannelCloses ==
    /\ [](serve_pc = "returned" =>
            /\ senders = "closed"
            /\ queue = <<>>
            /\ [i \in DOMAIN history |-> history[i].cmd] = sent)
    /\ [](senders = "open" => serve_pc = "recv")
    /\ (senders = "closed") ~> (serve_pc = "returned" /\ Len(history) = Len(sent))

\* serve has returned after dispatching two commands that were waiting when
\* the last Sender was dropped, the last of which returned an Err.
C28_Witness ==
    /\ serve_pc = "returned"
    /\ Len(sent) = MaxSent
    /\ Len(history) = MaxSent
    /\ \E i \in DOMAIN history : ~history[i].res.ok /\ i < Len(history)
    /\ ~history[MaxSent].res.ok

\* C29: the channel never holds more commands than its capacity; while it is
\* full no producer can enqueue, and as soon as it has room again a producer
\* with a command to send can; the commands dispatched followed by those
\* waiting are the commands enqueued, in enqueue order.
C29_ChannelBounded ==
    /\ Len(queue) <= ChannelCap
    /\ Len(queue) = ChannelCap => ~ENABLED Order_send
    /\ (Len(queue) < ChannelCap /\ senders = "open" /\ Len(sent) < MaxSent)
          => ENABLED Order_send
    /\ [i \in DOMAIN history |-> history[i].cmd] \o queue = sent

\* The channel was full, the dispatcher took a command, and a producer put in
\* another one: the channel is full again with the third and fourth command
\* enqueued.
C29_Witness ==
    /\ Len(queue) = ChannelCap
    /\ Len(history) = MaxSent - ChannelCap
    /\ Len(sent) = MaxSent
    /\ queue[1] # queue[2]
    /\ sent[1] # sent[3]

\* The members of a SplitRect share no cell.
NonOverlapping(s) ==
    \A i, j \in DOMAIN s : i < j => Points(s[i]) \cap Points(s[j]) = {}

\* Every member of a SplitRect holds a cell.
NonEmptyMembers(s) == \A i \in DOMAIN s : Points(s[i]) # {}

\* C30: mask_with is exact. For a SplitRect self of non-empty, pairwise
\* non-overlapping members and any rectangle other, the members of
\* self.mask_with(other) are pairwise non-overlapping, their union is exactly
\* the cells of self that are not in other, and the result is_empty when other
\* covers self.bounds().
C30_MaskWithExact ==
    last_mask # NoCall =>
        LET self  == last_mask.self
            other == last_mask.other
            res   == last_mask.res
        IN  (NonEmptyMembers(self) /\ NonOverlapping(self)) =>
                /\ NonOverlapping(res)
                /\ SplitPoints(res) = SplitPoints(self) \ Points(other)
                /\ (~is_empty(self) /\ cover(other, expect(bounds(self))))
                       => is_empty(res)

\* A SplitRect of several non-overlapping members was masked with a rectangle
\* that cuts into two of them and covers neither: the result has more members
\* than the SplitRect had.
C30_Witness ==
    /\ last_mask # NoCall
    /\ Len(last_mask.self) >= 2
    /\ NonEmptyMembers(last_mask.self)
    /\ NonOverlapping(last_mask.self)
    /\ \E i, j \in DOMAIN last_mask.self :
          /\ i < j
          /\ \A k \in {i, j} :
                /\ Points(last_mask.self[k]) \cap Points(last_mask.other) # {}
                /\ ~(Points(last_mask.self[k]) \subseteq Points(last_mask.other))
    /\ Len(last_mask.res) > Len(last_mask.self)

\* The residuals the claim names for member r and mask m, with i the bounding
\* box of the cells r and m share: Left, Top, Right, Bottom, in that order,
\* without those of non-positive width or height; r itself when they share no
\* cell.
Residuals(r, m) ==
    LET shared == Points(r) \cap Points(m)
    IN  IF shared = {} THEN <<r>>
        ELSE LET i == BBox(shared)
                 positive(q) == q.x2 - q.x1 > 0 /\ q.y2 - q.y1 > 0
             IN  SelectSeq(<< [x1 |-> r.x1, y1 |-> r.y1, x2 |-> i.x1, y2 |-> i.y2],
                              [x1 |-> i.x1, y1 |-> r.y1, x2 |-> r.x2, y2 |-> i.y1],
                              [x1 |-> i.x2, y1 |-> i.y1, x2 |-> r.x2, y2 |-> r.y2],
                              [x1 |-> r.x1, y1 |-> i.y2, x2 |-> i.x2, y2 |-> r.y2] >>,
                           positive)

RECURSIVE AllResiduals(_, _)
AllResiduals(s, m) ==
    IF s = <<>> THEN <<>> ELSE Residuals(Head(s), m) \o AllResiduals(Tail(s), m)

\* C31: mask_with keeps a member that shares no cell with the mask (every
\* empty mask is one) and replaces every other member by its Left, Top, Right
\* and Bottom residuals, in that order, without the residuals of non-positive
\* width or height; members are handled in order and each yields at most four
\* rectangles, none of them empty.
C31_MaskRectResiduals ==
    last_mask # NoCall =>
        /\ last_mask.res = AllResiduals(last_mask.self, last_mask.other)
        /\ Len(last_mask.res) <= 4 * Len(last_mask.self)
        /\ NonEmptyMembers(last_mask.res)
        /\ Points(last_mask.other) = {} => last_mask.res = last_mask.self

\* A mask strictly inside the only member: the four residuals are all kept.
C31_Witness ==
    /\ last_mask # NoCall
    /\ Len(last_mask.self) = 1
    /\ Len(last_mask.res) = 4
    /\ last_mask.self[1].x1 < last_mask.other.x1
    /\ last_mask.other.x2 < last_mask.self[1].x2
    /\ last_mask.self[1].y1 < last_mask.other.y1
    /\ last_mask.other.y2 < last_mask.self[1].y2

\* C32: intersect(a, b) is true exactly when a and b share a cell, that is
\* exactly when intersection(a, b) returns a rectangle; rectangles that share
\* only an edge or a corner do not intersect.
C32_IntersectIffOverlap ==
    last_mask # NoCall =>
        /\ last_mask.res <=> (Points(last_mask.self) \cap Points(last_mask.other) # {})
        /\ last_mask.res <=> (last_mask.inter # None)

\* Two non-empty rectangles side by side, sharing an edge and no cell:
\* intersection returns None and intersect returns true.
C32_Witness ==
    /\ last_mask # NoCall
    /\ Points(last_mask.self) # {}
    /\ Points(last_mask.other) # {}
    /\ last_mask.self.x2 = last_mask.other.x1
    /\ last_mask.self.y1 = last_mask.other.y1
    /\ last_mask.self.y2 = last_mask.other.y2
    /\ last_mask.inter = None
    /\ last_mask.res

\* C33: formatting a hint and parsing the result gives back the same hint,
\* for each of the 12 combinations of bit depth, convert mode and redraw
\* flag; and parsing "Y4|D|R" gives Hint::new(Y4, Dither, true).
C33_FormatParseRoundTrip ==
    /\ last_hint.op = "to_string" =>
          /\ last_hint.res = Ok(last_hint.hint)
          /\ last_hint.res.val = Hint_new(last_hint.bit_depth, last_hint.convert_mode,
                                          last_hint.redraw)
    /\ (last_hint.op = "try_from_human_readable" /\ last_hint.str = <<"Y4", "D", "R">>) =>
          last_hint.res = Ok(Hint_new(Y4, Dither, TRUE))

\* The hint (Y2, Dither, no redraw) was formatted as "Y2|D|r" and parsed back.
C33_Witness ==
    /\ last_hint.op = "to_string"
    /\ last_hint.bit_depth = Y2
    /\ last_hint.convert_mode = Dither
    /\ ~last_hint.redraw
    /\ last_hint.str = <<"Y2", "D", "r">>
    /\ last_hint.res.ok

KnownTokens == {"Y1", "Y2", "Y4", "T", "D", "R", "r"}

HasToken(str, tokens) == \E i \in DOMAIN str : str[i] \in tokens

\* C34: parsing a human-readable string returns Invalid when the string holds
\* a token other than Y1, Y2, Y4, T, D, R, r or holds no bit-depth token; an
\* accepted string without T or D gives convert mode Threshold, and one
\* without R or r gives redraw false.
C34_ParseRejectsAndDefaults ==
    last_hint.op = "try_from_human_readable" =>
        LET str == last_hint.str
            res == last_hint.res
        IN  /\ (\E i \in DOMAIN str : str[i] \notin KnownTokens) => res = Err("Invalid")
            /\ ~HasToken(str, {"Y1", "Y2", "Y4"}) => res = Err("Invalid")
            /\ (res.ok /\ ~HasToken(str, {"T", "D"})) => convert_mode(res.val) = Threshold
            /\ (res.ok /\ ~HasToken(str, {"R", "r"})) => ~redraw(res.val)

\* The string "Y2" was parsed: accepted, with Threshold and no redraw.
C34_Witness ==
    /\ last_hint.op = "try_from_human_readable"
    /\ last_hint.str = <<"Y2">>
    /\ last_hint.res = Ok(Hint_new(Y2, Threshold, FALSE))

\* C35: the packed form of a hint holds the bit depth in bits 4-5, the convert
\* mode in bit 6, the redraw flag in bit 7 and zero in bits 0-3; parsing a
\* numeric value rejects a byte with a bit set among bits 0-3 or with
\* bit-depth field 3, and for every other byte it gives a hint whose packed
\* form is that byte.
C35_PackedLayout ==
    /\ last_hint.op = "to_string" =>
          /\ (last_hint.packed \div 16) % 4 = last_hint.bit_depth
          /\ (last_hint.packed \div 64) % 2 = last_hint.convert_mode
          /\ ((last_hint.packed \div 128) % 2 = 1) <=> last_hint.redraw
          /\ last_hint.packed % 16 = 0
          /\ last_hint.packed \in 0..255
    /\ (last_hint.op = "from_str" /\ last_hint.parsed.ok) =>
          LET b == last_hint.parsed.val
          IN  IF b % 16 # 0 \/ (b \div 16) % 4 = 3
              THEN ~last_hint.res.ok
              ELSE last_hint.res.ok /\ u8_from(last_hint.res.val) = b

\* The byte 0xE0 was parsed: Y4, Dither, redraw, packed as 0xE0 again.
C35_Witness ==
    /\ last_hint.op = "from_str"
    /\ last_hint.parsed = Ok(224)
    /\ last_hint.res = Ok(Hint_new(Y4, Dither, TRUE))
    /\ u8_from(last_hint.res.val) = 224

\* C36: under a fair dispatcher every producer that called with_reply is
\* resumed in the end, whether it waits for room in the channel or for the
\* reply; it is resumed with the value the dispatcher sent for its command,
\* or with an error when the dispatcher dropped the reply sender; and the
\* dispatcher can take a command whenever one waits, whatever the producers
\* are doing.
C36_ProducersResumed ==
    /\ \A p \in Producers :
          (producers[p].pc \in {"send", "await"}) ~> (producers[p].pc = "resumed")
    /\ [](\A p \in Producers : producers[p].pc = "resumed" =>
             LET e == history[producers[p].ticket]
             IN  /\ e.cmd = expect(producers[p].cmd)
                 /\ IF e.reply # None
                    THEN expect(producers[p].got) = Ok(expect(e.reply))
                    ELSE ~expect(producers[p].got).ok /\ ~e.res.ok)
    /\ [](queue # <<>> => ENABLED recv)

\* The three producers are resumed: one with an error, its Window::Add having
\* been dispatched before the application was registered, and two with the
\* keys the dispatcher sent them.
C36_Witness ==
    /\ \A p \in Producers : producers[p].pc = "resumed"
    /\ \E p \in Producers : ~expect(producers[p].got).ok
    /\ Cardinality({p \in Producers : expect(producers[p].got).ok}) = 2
    /\ \E p \in Producers :
          /\ expect(producers[p].cmd).enum = "Window"
          /\ expect(producers[p].got).ok

\* C37: after any sequence of ZTree::insert calls no bucket of the tree is
\* empty and no leaf has an empty SplitRect: bounds() of every leaf is Some,
\* so the expect in ZLeaf::mask and mask_in_place finds a value at the next
\* insert, and flatten emits one surface for every leaf of the tree.
C37_NoEmptyBucketNoEmptyLeaf ==
    /\ \A k \in DOMAIN nodes :
          /\ nodes[k] # <<>>
          /\ \A i \in DOMAIN nodes[k] :
                /\ ~is_empty(nodes[k][i].area)
                /\ bounds(nodes[k][i].area) # None
    /\ Len(flatten(nodes)) = Cardinality(TreeLeaves(nodes))
    /\ \A l \in TreeLeaves(nodes) :
          \E i \in DOMAIN flatten(nodes) :
              /\ flatten(nodes)[i].reference = l.reference
              /\ flatten(nodes)[i].z_index = l.z_index

\* Three inserts returned true: the first leaf was wholly masked by a later
\* one and its bucket was removed, and a leaf that was masked in part is left
\* with a SplitRect of several members.
C37_Witness ==
    /\ Len(rets) = 3
    /\ \A i \in DOMAIN rets : rets[i]
    /\ inserted[1].z_index \notin DOMAIN nodes
    /\ Cardinality(TreeLeaves(nodes)) = 2
    /\ \E l \in TreeLeaves(nodes) : Len(l.area) >= 2

\* C38: in every registry state the registry operations lead to, and for
\* every iteration order of the window map, compute_hints returns Ok: every
\* flattened surface refers to a window of the registry, the application of
\* that window is registered, and the entries are as many as the surfaces.
C38_ComputeHintsOk ==
    \A order \in IterOrders(pixel_manager.windows) :
        LET surfaces == compute_surfaces(pixel_manager, order)
            hints    == compute_hints(pixel_manager, order)
        IN  /\ hints.ok
            /\ Len(hints.val.rect_hints) = Len(surfaces)
            /\ \A i \in DOMAIN surfaces :
                  /\ surfaces[i].reference \in DOMAIN pixel_manager.windows
                  /\ pixel_manager.windows[surfaces[i].reference].app_key
                        \in DOMAIN pixel_manager.applications
                  /\ window_hint_fallback(pixel_manager, surfaces[i].reference).ok

\* An application was removed with its windows, and a window without a hint
\* of its own, belonging to an application that is still registered, is
\* flattened: its hint is looked up through the application.
C38_Witness ==
    /\ last_call.op = "app_remove"
    /\ \E w \in DOMAIN pixel_manager.windows :
          /\ pixel_manager.windows[w].data.hint = None
          /\ \E order \in IterOrders(pixel_manager.windows) :
                \E i \in DOMAIN compute_surfaces(pixel_manager, order) :
                    compute_surfaces(pixel_manager, order)[i].reference = w

====
